---------------------------- MODULE HTTPAdapter ----------------------------
(***************************************************************************)
(* The HTTP adapter of the Host API (pkg/httpadapter): a request passes    *)
(* the route's guard, the handler's own checks and strict decoding, calls  *)
(* one Host operation, and the operation's result or error is projected    *)
(* into one of three closed envelopes.  What a client may conclude about a *)
(* mutation is in that envelope and nowhere else, so the model keeps every *)
(* path that writes one: the guards, the checks in the order each handler  *)
(* makes them, the error tables of each family of operations, the details  *)
(* those tables require, the projection of a committed result, and the     *)
(* envelope writeJSON puts in place of one it cannot encode.               *)
(*                                                                         *)
(* An error is the set of platform sentinels errors.Is finds in it and the *)
(* mutation outcome it carries; payloads, messages and wire records are    *)
(* left out.                                                               *)
(***************************************************************************)
EXTENDS Integers, Sequences, FiniteSetsExt

VARIABLES req,         \* the request in hand: its route, stage and next check
          result,      \* what the Host operation returned, and whether it committed
          answer       \* the envelope written, or NoAnswer

vars == <<req, result, answer>>

NoAnswer == [kind |-> "none"]

NoResult == [called |-> FALSE, err |-> {}, outcome |-> "none", committed |-> FALSE]

Idle == [route |-> "none", stage |-> "idle", next |-> 0]

-----------------------------------------------------------------------------
(* The error tables: the first entry one of whose sentinels errors.Is      *)
(* finds, in the order of the code: an error may join two.                 *)

Is(err, sentinels) == err \cap sentinels # {}

First(table, err, otherwise) ==
  LET hits == {i \in DOMAIN table : Is(err, table[i][1])}
  IN IF hits = {} THEN otherwise ELSE table[Min(hits)][2]

GatewayToken == {"TokenExpired", "TokenReplay", "TokenAlreadyBound", "TokenInvalid",
                 "TokenAudience", "TokenRevoked", "TokenKind"}

SandboxToken == GatewayToken \ {"TokenAlreadyBound"}

SurfaceSession == {"SurfaceSessionNotFound", "SurfaceSessionExpired", "AssetSessionRequired"}

RuntimeDown == {"RuntimeNotReady", "RuntimeIPCUnavailable", "RuntimeRequestFailed",
                "RuntimeHandshake"}

ArtifactBoundary == {"ArtifactTooLarge", "ArtifactEmpty", "InvalidSource"}

NetworkPolicy == {"TargetBlocked", "RedirectDenied", "TooManyRedirects"}

DataRejected == {"DataInvalidArgument", "BindingNotFound", "NotActive", "NotRetained",
                 "ExportNotFound", "UnknownSetting", "ShapeMismatch", "RegistryNotFound",
                 "NotDeclared", "InvalidNamespace", "InvalidSetting"}

errorCodeForGatewayTokenError(err) == First(
  << <<{"TokenReplay"}, "GATEWAY_TOKEN_REPLAYED">>,
     <<{"TokenAlreadyBound", "TokenAudience"}, "GATEWAY_TOKEN_CHANNEL_MISMATCH">> >>,
  err, "GATEWAY_TOKEN_INVALID")

errorCodeForBridgeError(err) == First(
  << <<{"SessionRevoked"}, "SESSION_REVOKED">>, <<{"AdapterFailure"}, "ADAPTER_FAILURE">>,
     <<{"ActionDenied"}, "ACTION_DENIED">>, <<{"TokenExpired"}, "TOKEN_EXPIRED">>,
     <<{"TokenReplay"}, "TOKEN_REPLAY">>,
     <<{"TokenAlreadyBound"}, "GATEWAY_TOKEN_CHANNEL_MISMATCH">> >>,
  err, "PERMISSION_DENIED")

httpStatusForBridgeError(err) == First(
  << <<{"SessionRevoked"}, 410>>, <<{"AdapterFailure"}, 502>> >>, err, 403)

\* handleBridgeToken renews with the previous gateway token or mints a first one.
errorCodeForBridgeTokenError(err, renewal) ==
  IF renewal /\ Is(err, GatewayToken) THEN errorCodeForGatewayTokenError(err)
                                     ELSE errorCodeForBridgeError(err)

runtimeManagementError(err) == First(
  << <<{"AdapterFailure"}, <<"ADAPTER_FAILURE", 502>> >>,
     <<{"ActionDenied"}, <<"ACTION_DENIED", 403>> >>,
     <<{"TargetUnsupported"}, <<"INVALID_REQUEST", 400>> >> >>,
  err, <<"RUNTIME_UNAVAILABLE", 503>>)

sessionScopeRevokeError(err) == First(
  << <<{"SessionTeardownIncomplete"}, <<"SESSION_TEARDOWN_INCOMPLETE", 503>> >>,
     <<{"FenceCapacity"}, <<"SESSION_FENCE_CAPACITY", 503>> >>,
     <<{"SessionRevoked"}, <<"SESSION_REVOKED", 410>> >>,
     <<{"ActionDenied"}, <<"ACTION_DENIED", 403>> >>,
     <<{"AdapterFailure"}, <<"ADAPTER_FAILURE", 502>> >> >>,
  err, <<"ADAPTER_FAILURE", 500>>)

errorCodeForOpenSurfaceError(err) == First(
  << <<{"AdapterFailure"}, "ADAPTER_FAILURE">>, <<{"ActionDenied"}, "ACTION_DENIED">>,
     <<{"ManagementRevisionMismatch"}, "MANAGEMENT_REVISION_MISMATCH">>,
     <<{"RuntimeNotConfigured"}, "RUNTIME_UNAVAILABLE">>,
     <<{"RuntimeIncompatible"}, "RUNTIME_VERSION_MISMATCH">>,
     <<{"SurfaceSessionLimitReached"}, "RUNTIME_UNAVAILABLE">>,
     <<{"SurfaceSessionAlreadyExists"}, "CONTRACT_MISMATCH">> >>,
  err, "PERMISSION_DENIED")

httpStatusForOpenSurfaceError(err) == First(
  << <<{"AdapterFailure"}, 502>>, <<{"ManagementRevisionMismatch"}, 409>>,
     <<{"RuntimeNotConfigured"}, 503>>, <<{"RuntimeIncompatible"}, 409>>,
     <<{"SurfaceSessionLimitReached"}, 503>>, <<{"SurfaceSessionAlreadyExists"}, 409>> >>,
  err, 403)

\* What a validated worker failure becomes; only a plugin's own keeps its details.
errorCodeForWorkerExecutionErrorValue(err) == First(
  << <<{"WorkerPlugin"}, "WORKER_ERROR">>, <<{"WorkerRequest"}, "INVALID_REQUEST">>,
     <<{"WorkerTarget"}, "NETWORK_TARGET_DENIED">>, <<{"WorkerRate"}, "NETWORK_RATE_LIMITED">>,
     <<{"WorkerQuota"}, "STORAGE_QUOTA_EXCEEDED">>, <<{"WorkerRevoked"}, "GRANT_INVALID">>,
     <<{"WorkerLease"}, "LEASE_INVALID">>, <<{"WorkerBudget"}, "WORKER_BUDGET_EXCEEDED">>,
     <<{"WorkerMemory"}, "WORKER_MEMORY_LIMIT">>, <<{"WorkerTimeout"}, "WORKER_TIMEOUT">>,
     <<{"WorkerInvalid"}, "CONTRACT_MISMATCH">> >>,
  err, "RUNTIME_UNAVAILABLE")

httpStatusForWorkerExecutionErrorCode(code) == First(
  << <<{"INVALID_REQUEST"}, 400>>, <<{"NETWORK_TARGET_DENIED", "GRANT_INVALID", "LEASE_INVALID"}, 403>>,
     <<{"NETWORK_RATE_LIMITED"}, 429>>, <<{"STORAGE_QUOTA_EXCEEDED"}, 413>>,
     <<{"WORKER_BUDGET_EXCEEDED", "WORKER_MEMORY_LIMIT"}, 422>>, <<{"WORKER_TIMEOUT"}, 504>>,
     <<{"CONTRACT_MISMATCH"}, 502>>, <<{"RUNTIME_UNAVAILABLE", "RUNTIME_VERSION_MISMATCH"}, 503>> >>,
  {code}, 422)

httpStatusForWorkerExecutionError(err) ==
  httpStatusForWorkerExecutionErrorCode(errorCodeForWorkerExecutionErrorValue(err))

WorkerErrors == {"WorkerPlugin", "WorkerRequest", "WorkerTarget", "WorkerRate", "WorkerQuota",
                 "WorkerRevoked", "WorkerLease", "WorkerBudget", "WorkerMemory",
                 "WorkerTimeout", "WorkerInvalid", "WorkerOther"}

SurfaceMethodErrors ==
  << <<{"SurfaceMethodUnavailable"}, "SURFACE_METHOD_UNAVAILABLE">>,
     <<{"SurfaceMethodConflict"}, "SURFACE_METHOD_CONFLICT">>,
     <<{"SurfaceMethodAmbiguous"}, "SURFACE_METHOD_AMBIGUOUS">>,
     <<{"SurfaceMethodFailed"}, "SURFACE_METHOD_FAILED">> >>

errorCodeForRPCError(err) == First(SurfaceMethodErrors \o
  << <<{"AdapterFailure"}, "ADAPTER_FAILURE">>, <<{"ActionDenied"}, "ACTION_DENIED">>,
     <<{"FeatureNotConfigured"}, "FEATURE_NOT_CONFIGURED">>,
     <<{"CapabilityBusiness"}, "CAPABILITY_ERROR">>,
     <<{"UnattestedStructured"}, "CONTRACT_MISMATCH">>,
     <<WorkerErrors, errorCodeForWorkerExecutionErrorValue(err)>>,
     <<{"MethodRequestContract"}, "INVALID_REQUEST">>,
     <<{"MethodResponseContract"}, "CONTRACT_MISMATCH">>,
     <<{"ConfirmationRequired"}, "CONFIRMATION_REQUIRED">>,
     <<{"ConfirmationInvalid"}, "CONFIRMATION_INVALID">>,
     <<{"PolicyDenied", "PermissionDenied"}, "PERMISSION_DENIED">>,
     <<{"TokenExpired"}, "TOKEN_EXPIRED">>,
     <<GatewayToken, errorCodeForGatewayTokenError(err)>>,
     <<RuntimeDown \cup {"RuntimeNotConfigured"}, "RUNTIME_UNAVAILABLE">>,
     <<{"RuntimeIncompatible"}, "RUNTIME_VERSION_MISMATCH">> >>,
  err, "PERMISSION_DENIED")

httpStatusForRPCError(err) == First(
  << <<{"SurfaceMethodUnavailable", "SurfaceMethodConflict", "SurfaceMethodAmbiguous"}, 409>>,
     <<{"SurfaceMethodFailed", "AdapterFailure"}, 502>>,
     <<{"FeatureNotConfigured"}, 501>>, <<{"CapabilityBusiness"}, 422>>,
     <<{"UnattestedStructured"}, 502>>, <<WorkerErrors, httpStatusForWorkerExecutionError(err)>>,
     <<{"MethodRequestContract"}, 400>>, <<{"MethodResponseContract"}, 502>>,
     <<{"ConfirmationRequired"}, 409>>,
     <<{"PolicyDenied", "PermissionDenied"} \cup GatewayToken, 403>>, <<RuntimeDown, 503>> >>,
  err, 403)

errorCodeForIntentError(err) == First(SurfaceMethodErrors \o
  << <<{"AdapterFailure"}, "ADAPTER_FAILURE">>, <<{"ActionDenied"}, "ACTION_DENIED">>,
     <<{"FeatureNotConfigured"}, "FEATURE_NOT_CONFIGURED">>,
     <<{"CapabilityBusiness"}, "CAPABILITY_ERROR">>,
     <<{"UnattestedStructured"}, "CONTRACT_MISMATCH">>,
     <<WorkerErrors, errorCodeForWorkerExecutionErrorValue(err)>>,
     <<{"MethodRequestContract"}, "INVALID_REQUEST">>,
     <<{"MethodResponseContract"}, "CONTRACT_MISMATCH">>,
     <<{"ConfirmationRequired"}, "CONFIRMATION_REQUIRED">>,
     <<{"PolicyDenied", "PermissionDenied"}, "PERMISSION_DENIED">>,
     <<{"RegistryNotFound"}, "INVALID_REQUEST">>, <<RuntimeDown, "RUNTIME_UNAVAILABLE">> >>,
  err, "INVALID_REQUEST")

httpStatusForIntentError(err) == First(
  << <<{"SurfaceMethodUnavailable", "SurfaceMethodConflict", "SurfaceMethodAmbiguous"}, 409>>,
     <<{"SurfaceMethodFailed", "AdapterFailure"}, 502>>, <<{"ActionDenied"}, 403>>,
     <<{"CapabilityBusiness"}, 422>>, <<{"UnattestedStructured"}, 502>>,
     <<WorkerErrors, httpStatusForWorkerExecutionError(err)>>,
     <<{"MethodRequestContract"}, 400>>, <<{"MethodResponseContract"}, 502>>,
     <<{"ConfirmationRequired"}, 409>>, <<{"PolicyDenied", "PermissionDenied"}, 403>>,
     <<{"RegistryNotFound"}, 400>>, <<RuntimeDown, 503>> >>,
  err, 400)

PackageRejected == {"InspectionNotFound", "InspectionExpired", "PackageRequestInvalid",
                    "InvalidPackageInstall"}

NotThere == {"RegistryNotFound", "InvalidNamespace"}

\* One typed error of each of these can be found in an error.
PackageValidation == {"ManifestInvalid", "PackageInvalid", "PackageTooLarge",
                      "PackagePathForbidden"}

ExternalSource == {"ReleaseNetwork", "ReleaseMissing", "StageIntegrity", "StageInvalid"}
                    \cup ArtifactBoundary \cup NetworkPolicy

ScopeMismatch == {"OwnerScopeMismatch", "ResourceScopeMismatch", "StorageScopeMismatch"}

ConnectorRefused == {"InvalidConnector", "TargetDenied", "ConnectorDenied"}

errorCodeForManagementError(err) == First(
  << <<{"ManifestInvalid"}, "MANIFEST_INVALID">>, <<{"PackageInvalid"}, "PACKAGE_INVALID">>,
     <<{"PackageTooLarge"}, "PACKAGE_TOO_LARGE">>,
     <<{"PackagePathForbidden"}, "PACKAGE_PATH_FORBIDDEN">>,
     <<{"ReleaseNetwork"}, "RELEASE_NETWORK">>, <<{"ReleaseMissing"}, "RELEASE_ASSET_MISSING">>,
     <<{"StageIntegrity"}, "RELEASE_ASSET_INTEGRITY">>,
     <<{"ArtifactTooLarge"}, "PACKAGE_TOO_LARGE">>,
     <<{"ArtifactEmpty", "InvalidSource"}, "PACKAGE_INVALID">>,
     <<{"StageInvalid"}, "ADAPTER_FAILURE">>, <<NetworkPolicy, "NETWORK_TARGET_DENIED">>,
     <<{"MethodRequestContract"}, "INVALID_REQUEST">>, <<{"ActionDenied"}, "ACTION_DENIED">>,
     <<{"UpdateReviewRequired"}, "CONFIRMATION_REQUIRED">>,
     <<{"PackageConfirmation"}, "CONFIRMATION_INVALID">>,
     <<PackageRejected, "INVALID_REQUEST">>,
     <<{"OwnerScopeMismatch", "ResourceScopeMismatch"}, "OWNER_SCOPE_MISMATCH">>,
     <<{"StorageScopeMismatch"}, "STORAGE_SCOPE_MISMATCH">>,
     <<{"AdapterFailure"}, "ADAPTER_FAILURE">>,
     <<{"FeatureNotConfigured"}, "FEATURE_NOT_CONFIGURED">>,
     <<{"RegistrationMissing"}, "CONTRACT_MISMATCH">>,
     <<{"ManagementRevisionMismatch"}, "MANAGEMENT_REVISION_MISMATCH">>,
     <<{"RuntimeNotConfigured"}, "RUNTIME_UNAVAILABLE">>,
     <<{"RuntimeIncompatible"}, "RUNTIME_VERSION_MISMATCH">>,
     <<NotThere, "INVALID_REQUEST">>, <<{"DeadlineExceeded"}, "RELEASE_TIMEOUT">>, <<{"Canceled"}, "INSTALL_INTERRUPTED">>,
     <<{"AlreadyInstalled"}, "INSTALL_STATE_CONFLICT">>,
     <<{"InspectedInstallNotFound"}, "EXECUTION_NOT_FOUND">>,
     <<{"QuotaExceeded"}, "STORAGE_QUOTA_EXCEEDED">>,
     <<{"ExecutionDeleteBlocked"}, "EXECUTION_BLOCKED">>,
     <<ConnectorRefused, "NETWORK_TARGET_DENIED">> >>,
  err, "INTERNAL_FAILURE")

httpStatusForManagementError(err) == First(
  << <<{"PackageTooLarge"}, 413>>, <<PackageValidation, 400>>,
     <<{"ReleaseNetwork", "ReleaseMissing", "StageInvalid"}, 502>>, <<{"ArtifactTooLarge"}, 413>>,
     <<ExternalSource, 400>>, <<{"MethodRequestContract"}, 400>>, <<{"AdapterFailure"}, 502>>,
     <<{"FeatureNotConfigured"}, 501>>, <<{"RegistrationMissing"}, 409>>,
     <<{"ActionDenied"} \cup ScopeMismatch, 403>>, <<{"UpdateReviewRequired"}, 409>>,
     <<{"PackageConfirmation"} \cup PackageRejected, 400>>,
     <<{"ManagementRevisionMismatch"}, 409>>, <<NotThere, 400>>, <<{"DeadlineExceeded"}, 504>>,
     <<{"Canceled"}, 503>>, <<{"AlreadyInstalled"}, 409>>, <<{"InspectedInstallNotFound"}, 404>>,
     <<{"QuotaExceeded"}, 413>>, <<{"ExecutionDeleteBlocked"}, 409>>, <<ConnectorRefused, 403>> >>,
  err, 500)

errorCodeForExecutionError(err) == First(
  << <<GatewayToken, errorCodeForGatewayTokenError(err)>>,
     <<{"AdapterFailure"}, "ADAPTER_FAILURE">>, <<{"ActionDenied"}, "ACTION_DENIED">>,
     <<{"NotCancelable"}, "EXECUTION_NOT_CANCELABLE">>,
     <<{"InvalidTransition"}, "EXECUTION_BLOCKED">>,
     <<{"SequenceConflict"}, "INVALID_REQUEST">> >>,
  err, "EXECUTION_NOT_FOUND")

httpStatusForExecutionError(err) == First(
  << <<GatewayToken, 403>>, <<{"AdapterFailure"}, 502>>,
     <<{"NotCancelable", "InvalidTransition"}, 409>>, <<{"SequenceConflict"}, 400>>,
     <<{"RecordNotFound", "InspectedInstallNotFound"}, 404>>, <<{"ActionDenied"}, 403>> >>,
  err, 404)

errorCodeForDataLifecycleError(err) == First(
  << <<{"RetainedRecoveryConflict"}, "RETAINED_RECOVERY_CONFLICT">>,
     <<{"ActionDenied"}, "ACTION_DENIED">>, <<{"OwnerScopeMismatch"}, "OWNER_SCOPE_MISMATCH">>,
     <<{"StorageScopeMismatch"}, "STORAGE_SCOPE_MISMATCH">>,
     <<{"AdapterFailure"}, "ADAPTER_FAILURE">>, <<{"QuotaExceeded"}, "STORAGE_QUOTA_EXCEEDED">>,
     <<{"BindingRevisionConflict"}, "BINDING_REVISION_MISMATCH">>,
     <<{"RevisionConflict"}, "VALUES_REVISION_MISMATCH">>,
     <<DataRejected, "INVALID_REQUEST">>,
     <<{"BindingConflict", "DatasetCorrupt"}, "CONTRACT_MISMATCH">> >>,
  err, "PERMISSION_DENIED")

httpStatusForDataLifecycleError(err) == First(
  << <<{"RetainedRecoveryConflict"}, 409>>, <<{"AdapterFailure"}, 502>>,
     <<{"OwnerScopeMismatch", "StorageScopeMismatch"}, 403>>, <<{"QuotaExceeded"}, 413>>,
     <<{"BindingRevisionConflict", "RevisionConflict"}, 409>>, <<DataRejected, 400>>,
     <<{"BindingConflict", "DatasetCorrupt"}, 500>> >>,
  err, 403)

errorCodeForSecretError(err) == First(
  << <<{"ActionDenied"}, "ACTION_DENIED">>, <<{"SecretScopeMismatch"}, "SECRET_SCOPE_MISMATCH">>,
     <<{"OwnerScopeMismatch"}, "OWNER_SCOPE_MISMATCH">>,
     <<{"AdapterFailure"}, "ADAPTER_FAILURE">>,
     <<{"InvalidSecretRef", "RegistryNotFound"}, "INVALID_REQUEST">>,
     <<{"SecretStoreRequired"}, "RUNTIME_UNAVAILABLE">> >>,
  err, "PERMISSION_DENIED")

httpStatusForSecretError(err) == First(
  << <<{"AdapterFailure"}, 502>>, <<{"SecretScopeMismatch", "OwnerScopeMismatch"}, 403>>,
     <<{"InvalidSecretRef", "RegistryNotFound"}, 400>>, <<{"SecretStoreRequired"}, 503>> >>,
  err, 403)

errorCodeForSettingsError(err) == First(
  << <<{"ActionDenied"}, "ACTION_DENIED">>,
     <<{"OwnerScopeMismatch", "SettingScopeMismatch"}, "OWNER_SCOPE_MISMATCH">>,
     <<{"StorageScopeMismatch"}, "STORAGE_SCOPE_MISMATCH">>,
     <<{"AdapterFailure"}, "ADAPTER_FAILURE">>,
     <<{"RevisionConflict"}, "VALUES_REVISION_MISMATCH">>,
     <<{"RegistryNotFound", "NotDeclared", "UnknownSetting", "InvalidSetting"}, "INVALID_REQUEST">> >>,
  err, "PERMISSION_DENIED")

httpStatusForSettingsError(err) == First(
  << <<{"AdapterFailure"}, 502>>, <<{"OwnerScopeMismatch"}, 403>>, <<{"RevisionConflict"}, 409>>,
     <<{"RegistryNotFound", "NotDeclared", "UnknownSetting", "InvalidSetting"}, 400>> >>,
  err, 403)

errorCodeForAssetError(err) == First(
  << <<{"SessionRevoked"}, "SESSION_REVOKED">>, <<{"AdapterFailure"}, "ADAPTER_FAILURE">>,
     <<{"ActionDenied"}, "ACTION_DENIED">>, <<{"TokenReplay"}, "TOKEN_REPLAY">>,
     <<{"TokenExpired"}, "TOKEN_EXPIRED">>,
     <<SandboxToken \cup SurfaceSession, "ASSET_SESSION_INVALID">>,
     <<{"RegistryNotFound"}, "INVALID_REQUEST">> >>,
  err, "PERMISSION_DENIED")

httpStatusForAssetError(err) == First(
  << <<{"SessionRevoked"}, 410>>, <<{"AdapterFailure"}, 502>>, <<SandboxToken \cup SurfaceSession, 403>>,
     <<{"RegistryNotFound"}, 400>> >>,
  err, 403)

errorCodeForPermissionError(err) == First(
  << <<{"ActionDenied"}, "ACTION_DENIED">>, <<{"OwnerScopeMismatch"}, "OWNER_SCOPE_MISMATCH">>,
     <<{"AdapterFailure"}, "ADAPTER_FAILURE">>,
     <<{"RegistryNotFound", "InvalidPermission", "GrantNotFound"}, "INVALID_REQUEST">> >>,
  err, "PERMISSION_DENIED")

httpStatusForPermissionError(err) == First(
  << <<{"AdapterFailure"}, 502>>,
     <<{"RegistryNotFound", "InvalidPermission", "GrantNotFound"}, 400>> >>, err, 403)

errorCodeForSecurityPolicyError(err) == First(
  << <<{"ActionDenied"}, "ACTION_DENIED">>, <<{"OwnerScopeMismatch"}, "OWNER_SCOPE_MISMATCH">>,
     <<{"AdapterFailure"}, "ADAPTER_FAILURE">>,
     <<{"AuthorizationRevisionConflict"}, "AUTHORIZATION_REVISION_MISMATCH">>,
     <<{"RegistryNotFound", "InvalidRevisions", "InvalidPolicy", "PolicyNotFound"},
       "INVALID_REQUEST">> >>,
  err, "RUNTIME_UNAVAILABLE")

httpStatusForSecurityPolicyError(err) == First(
  << <<{"AdapterFailure"}, 502>>, <<{"ActionDenied"}, 403>>,
     <<{"AuthorizationRevisionConflict"}, 409>>, <<{"PolicyNotFound"}, 404>>,
     <<{"RegistryNotFound", "InvalidRevisions", "InvalidPolicy"}, 400>> >>,
  err, 503)

connectionFailure(err) == First(
  << <<{"InvalidConnector"}, <<"INVALID_REQUEST", 400>> >>,
     <<{"ControlRevisionConflict"}, <<"CONNECTION_CONFLICT", 409>> >>,
     <<{"ConnectionUnavailable"}, <<"CONNECTION_UNAVAILABLE", 409>> >>,
     <<{"ConnectorDenied", "TargetDenied"}, <<"NETWORK_TARGET_DENIED", 403>> >> >>,
  err, <<errorCodeForPermissionError(err), httpStatusForPermissionError(err)>>)

fileResourceFailure(err) == First(
  << <<{"FileOperation"}, <<"FILE_OPERATION_FAILED", 409>> >>,
     <<{"FileSelectionCanceled"}, <<"INVALID_REQUEST", 409>> >>,
     <<{"FileResourceUnavailable"}, <<"PERMISSION_DENIED", 410>> >> >>,
  err, <<errorCodeForPermissionError(err), httpStatusForPermissionError(err)>>)

-----------------------------------------------------------------------------
(* The families of operations, and the details their errors carry.         *)

Classify(family, err, renewal) ==
  CASE family \in {"management", "inventory"} ->
           <<errorCodeForManagementError(err), httpStatusForManagementError(err)>>
    [] family = "diagnostics" -> IF Is(err, {"ActionDenied", "AdapterFailure"})
                                   THEN <<errorCodeForManagementError(err), httpStatusForManagementError(err)>>
                                   ELSE <<"INVALID_REQUEST", 400>>
    [] family = "open"        -> <<errorCodeForOpenSurfaceError(err), httpStatusForOpenSurfaceError(err)>>
    [] family = "asset"       -> <<errorCodeForAssetError(err), httpStatusForAssetError(err)>>
    [] family = "token"       -> <<errorCodeForBridgeTokenError(err, renewal), 403>>
    [] family = "bridge"      -> <<errorCodeForBridgeError(err), httpStatusForBridgeError(err)>>
    [] family = "session"     -> sessionScopeRevokeError(err)
    [] family = "rpc"         -> <<errorCodeForRPCError(err), httpStatusForRPCError(err)>>
    [] family = "intent"      -> <<errorCodeForIntentError(err), httpStatusForIntentError(err)>>
    [] family = "execution"   -> <<errorCodeForExecutionError(err), httpStatusForExecutionError(err)>>
    [] family = "runtime"     -> runtimeManagementError(err)
    [] family = "data"        -> <<errorCodeForDataLifecycleError(err), httpStatusForDataLifecycleError(err)>>
    [] family = "permission"  -> <<errorCodeForPermissionError(err), httpStatusForPermissionError(err)>>
    [] family = "policy"      -> <<errorCodeForSecurityPolicyError(err), httpStatusForSecurityPolicyError(err)>>
    [] family = "secret"      -> <<errorCodeForSecretError(err), httpStatusForSecretError(err)>>
    [] family = "settings"    -> <<errorCodeForSettingsError(err), httpStatusForSettingsError(err)>>
    [] family = "connection"  -> connectionFailure(err)
    [] family = "file"        -> fileResourceFailure(err)

\* The sentinels an operation of a family is given to the tables with.
Raises(family) == {"ActionDenied", "AdapterFailure", "Other"} \cup
  CASE family = "management"  -> {"ManifestInvalid", "PackageTooLarge", "ReleaseNetwork", "StageInvalid",
                                  "StageIntegrity", "ManagementRevisionMismatch", "InspectionExpired",
                                  "UpdateReviewRequired", "StorageScopeMismatch", "RuntimeNotConfigured",
                                  "DeadlineExceeded", "AlreadyInstalled", "QuotaExceeded",
                                  "InvalidConnector"} \cup ArtifactBoundary \cup NetworkPolicy
    [] family \in {"diagnostics", "inventory"} -> {}
    [] family = "open"        -> {"ManagementRevisionMismatch", "RuntimeNotConfigured",
                                  "RuntimeIncompatible", "SurfaceSessionLimitReached",
                                  "SurfaceSessionAlreadyExists"}
    [] family \in {"asset", "token", "bridge"} -> GatewayToken \cup SurfaceSession \cup
                                  {"SessionRevoked", "RegistryNotFound"}
    [] family = "session"     -> {"SessionTeardownIncomplete", "FenceCapacity", "SessionRevoked"}
    [] family \in {"rpc", "intent"} -> WorkerErrors \cup RuntimeDown \cup
                                 {"SurfaceMethodUnavailable", "SurfaceMethodFailed",
                                  "CapabilityBusiness", "UnattestedStructured", "MethodRequestContract",
                                  "MethodResponseContract", "ConfirmationRequired", "FeatureNotConfigured",
                                  "ConfirmationInvalid", "PolicyDenied", "TokenExpired", "TokenReplay"}
    [] family = "execution"   -> GatewayToken \cup {"NotCancelable", "InvalidTransition",
                                  "SequenceConflict", "RecordNotFound"}
    [] family = "runtime"     -> {"TargetUnsupported"}
    [] family = "data"        -> DataRejected \cup {"RetainedRecoveryConflict", "OwnerScopeMismatch",
                                  "QuotaExceeded", "BindingRevisionConflict", "RevisionConflict",
                                  "BindingConflict"}
    [] family = "permission"  -> {"OwnerScopeMismatch", "RegistryNotFound", "GrantNotFound"}
    [] family = "policy"      -> {"AuthorizationRevisionConflict", "PolicyNotFound", "InvalidPolicy"}
    [] family = "secret"      -> {"SecretScopeMismatch", "InvalidSecretRef", "SecretStoreRequired"}
    [] family = "settings"    -> {"RevisionConflict", "SettingScopeMismatch", "UnknownSetting"}
    [] family = "connection"  -> {"ConnectionUnavailable", "ConnectorDenied", "InvalidConnector",
                                  "ControlRevisionConflict"}
    [] family = "file"        -> {"FileOperation", "FileSelectionCanceled", "FileResourceUnavailable"}

\* An error of an operation: one sentinel, or two it joins, as when a step fails and
\* so does undoing it; each typed error is there once.
Errors(family) ==
  {err \in {{e, f} : e, f \in Raises(family)} :
     \A typed \in {WorkerErrors, PackageValidation, ExternalSource} :
       Cardinality(err \cap typed) <= 1}

errorDetailsForManagementError(err) == First(
  << <<{"ManagementRevisionMismatch"}, "management">>, <<PackageValidation, "package">>,
     <<ArtifactBoundary \cup NetworkPolicy, "package">> >>,
  err, "none")

errorDetailsForRPCError(err) == First(
  << <<{"CapabilityBusiness"}, "capability">>, <<{"WorkerPlugin"}, "worker">> >>,
  err, "none")

\* The details each source yields for an error.
DetailsOf(source, err) ==
  CASE source = "management" -> errorDetailsForManagementError(err)
    [] source = "rpc"        -> errorDetailsForRPCError(err)
    [] source = "policy"     -> First(<< <<{"AuthorizationRevisionConflict"}, "authorization">> >>, err, "none")
    [] source = "binding"    -> First(<< <<{"BindingRevisionConflict"}, "binding">> >>, err, "none")
    [] source = "values"     -> First(<< <<{"RevisionConflict"}, "values">> >>, err, "none")
    [] source = "session"    -> First(<< <<{"SessionTeardownIncomplete"}, "session">> >>, err, "none")
    [] source = "file"       -> First(<< <<{"FileOperation"}, "file">> >>, err, "none")
    [] source = "none"       -> "none"

\* The one group of details a code must carry, and may.
validateForCode(code, details) ==
  details = First(
    << <<{"FILE_OPERATION_FAILED"}, "file">>, <<{"MANAGEMENT_REVISION_MISMATCH"}, "management">>,
       <<{"AUTHORIZATION_REVISION_MISMATCH"}, "authorization">>,
       <<{"BINDING_REVISION_MISMATCH"}, "binding">>, <<{"VALUES_REVISION_MISMATCH"}, "values">>,
       <<{"CAPABILITY_ERROR"}, "capability">>, <<{"WORKER_ERROR"}, "worker">>,
       <<{"JSON_LIMIT_EXCEEDED"}, "limit">>,
       <<{"MANIFEST_INVALID", "PACKAGE_INVALID", "PACKAGE_TOO_LARGE", "PACKAGE_PATH_FORBIDDEN"},
         "package">>,
       <<{"SESSION_TEARDOWN_INCOMPLETE"}, "session">> >>,
    {code}, "none")

-----------------------------------------------------------------------------
(* The envelopes.                                                          *)

Success == [kind |-> "success", code |-> "OK", status |-> 200, details |-> "none", outcome |-> "none"]

writeError(code, status, details) ==
  [kind |-> "error", code |-> code, status |-> status, details |-> details, outcome |-> "none"]

writeMutationError(code, status, details, outcome) ==
  [kind |-> "mutation_error", code |-> code, status |-> status, details |-> details, outcome |-> outcome]

\* Mutation: the replacement of a mutation's answer has the outcome of an error
\* without one.
ReplacementUntold(envelope) ==
  [kind |-> "replacement", code |-> "CONTRACT_MISMATCH", status |-> 500, details |-> "none",
   outcome |-> IF envelope.kind = "error" THEN "none" ELSE "not_committed"]

\* An envelope that does not encode is replaced by one that says less.
Replacement(envelope) ==
  [kind |-> "replacement", code |-> "CONTRACT_MISMATCH", status |-> 500, details |-> "none",
   outcome |-> IF envelope.kind = "error" THEN "none" ELSE "unknown"]

writeJSON(envelope) ==
  IF validateForCode(envelope.code, envelope.details) THEN envelope ELSE Replacement(envelope)

writeRequestErrorForEffect(effect, code, status, details) ==
  writeJSON(IF effect = "mutation" THEN writeMutationError(code, status, details, "not_committed")
                                   ELSE writeError(code, status, details))

\* A result that was obtained but cannot be projected onto the wire: the defective
\* form answers as the error tables do, with the outcome an error without one has.
writeProjectionErrorUntold(effect) ==
  writeJSON(IF effect = "mutation" THEN writeMutationError("ADAPTER_FAILURE", 502, "none", "not_committed")
                                   ELSE writeError("ADAPTER_FAILURE", 502, "none"))

writeProjectionError(effect) ==
  writeJSON(IF effect = "mutation" THEN writeMutationError("ADAPTER_FAILURE", 502, "none", "unknown")
                                   ELSE writeError("ADAPTER_FAILURE", 502, "none"))

\* mutation.ForError: an error that carries no outcome says nothing was committed.
ForError(outcome) == IF outcome = "none" THEN "not_committed" ELSE outcome

-----------------------------------------------------------------------------
(* The handlers: effect, checks in order, family, source of details, and   *)
(* whether the result is projected by a function that can fail.            *)

Handler(effect, checks, family, details, projects) ==
  [effect |-> effect, checks |-> checks, family |-> family, details |-> details,
   projects |-> projects]

Mutation(checks, family, details, projects) == Handler("mutation", checks, family, details, projects)

Query(checks, family, details, projects) == Handler("query", checks, family, details, projects)

handleListRepositoryPlugins    == Query(<<"decode">>, "management", "management", FALSE)
handleSetAutomaticUpdates      == Mutation(<<"decode">>, "management", "management", TRUE)
handleInspectPluginUpdate      == Mutation(<<"decode">>, "management", "management", FALSE)
handleImportLocalPackageUpload == Mutation(<<"path", "fields", "media", "body">>, "management", "management", TRUE)
handleInspectExternalPackage   == Mutation(<<"decode">>, "management", "management", FALSE)
handleInspectUploadedExternalPackage == Mutation(<<"fields", "media", "length">>, "management", "management", FALSE)
handleInspectUploadedExternalPackageUpdate ==
  Mutation(<<"path", "revision", "fields", "media", "length">>, "management", "management", FALSE)
handleStartInspectedInstall    == Mutation(<<"decode">>, "management", "management", FALSE)
handleGetInspectedInstall      == Query(<<"decode">>, "management", "management", FALSE)
handleListInspectedInstalls    == Query(<<"decode">>, "management", "management", FALSE)
handleEnable                   == Mutation(<<"decode", "revision">>, "management", "management", TRUE)
handleDisable                  == Mutation(<<"decode", "revision">>, "management", "management", TRUE)
handleUninstall                == Mutation(<<"decode", "revision">>, "management", "management", TRUE)
handleDowngrade                == Mutation(<<"decode", "revision">>, "management", "management", TRUE)
handleUpdateLocalPackageUpload == Mutation(<<"path", "revision", "media", "body">>, "management", "management", TRUE)
handleCatalog                  == Query(<<"decode">>, "inventory", "none", TRUE)
handleReadPluginIcon           == Query(<<"fields">>, "asset", "none", FALSE)
handleFeatures                 == Query(<<"decode">>, "inventory", "none", FALSE)
handleOpenSurface              == Mutation(<<"decode", "revision">>, "open", "management", FALSE)
handleRevokeSessionScope       == Mutation(<<"decode">>, "session", "session", FALSE)
handlePrepareSurface           == Mutation(<<"path", "decode">>, "asset", "none", FALSE)
handleBridgeToken              == Mutation(<<"path", "decode", "fields">>, "token", "none", FALSE)
handleRejectSurfaceConfirmation == Mutation(<<"path", "decode">>, "rpc", "rpc", FALSE)
handleDisposeSurface           == Mutation(<<"path", "decode">>, "bridge", "none", FALSE)
handleRPC                      == Mutation(<<"decode">>, "rpc", "rpc", TRUE)
handlePrepareMethodConfirmation == Mutation(<<"decode">>, "rpc", "rpc", TRUE)
handlePrepareIntentConfirmation == Mutation(<<"decode">>, "rpc", "rpc", TRUE)
handleSurfaceMethods           == Mutation(<<"decode">>, "rpc", "rpc", FALSE)
handleListIntents              == Query(<<"decode">>, "intent", "none", TRUE)
handleInvokeIntent             == Mutation(<<"decode">>, "intent", "rpc", TRUE)
handleListExecutions           == Query(<<"decode", "fields">>, "execution", "none", FALSE)
handleGetExecution             == Query(<<"decode", "path">>, "execution", "none", FALSE)
handleCancelExecution          == Mutation(<<"path", "decode">>, "execution", "none", FALSE)
handleListExecutionEvents      == Query(<<"path", "decode", "fields">>, "execution", "none", TRUE)
handleStartRuntime             == Mutation(<<"decode", "fields">>, "runtime", "none", FALSE)
handleStopRuntime              == Mutation(<<"decode">>, "runtime", "none", FALSE)
handleRuntimeHealth            == Query(<<"decode">>, "runtime", "none", FALSE)
handleRecoverEnabledPlugins    == Mutation(<<"decode">>, "runtime", "none", FALSE)
handleRetryRuntimeRecovery     == Mutation(<<"decode">>, "runtime", "none", FALSE)
handleExportData               == Mutation(<<"decode">>, "data", "none", FALSE)
handleDeleteDataExport         == Mutation(<<"decode">>, "data", "none", FALSE)
handleImportData               == Mutation(<<"decode", "revision">>, "data", "none", TRUE)
handleListRetainedData         == Query(<<"decode">>, "data", "none", FALSE)
handleDeleteRetainedData       == Mutation(<<"decode", "revision">>, "data", "binding", FALSE)
handleCleanupExpiredRetainedData == Mutation(<<"decode">>, "data", "none", FALSE)
handleInspectRetainedRecovery  == Query(<<"decode">>, "data", "none", FALSE)
handleCommitRetainedRecovery   == Mutation(<<"decode">>, "data", "none", FALSE)
handleRetainedRecoveryStatus   == Query(<<"decode">>, "data", "none", FALSE)
handleReviewConnection         == Mutation(<<"decode">>, "connection", "none", FALSE)
handleApproveConnection        == Mutation(<<"decode">>, "connection", "none", FALSE)
handleCancelConnectionReview   == Mutation(<<"decode">>, "connection", "none", FALSE)
handleListConnections          == Query(<<"decode">>, "connection", "none", FALSE)
handleRevokeConnection         == Mutation(<<"decode">>, "connection", "none", FALSE)
handleSelectFileResource       == Mutation(<<"decode">>, "file", "file", FALSE)
handleSurfaceFile              == Mutation(<<"decode">>, "file", "file", FALSE)
handleApproveFileResource      == Mutation(<<"decode">>, "file", "file", FALSE)
handleCancelFileResource       == Mutation(<<"decode">>, "file", "file", FALSE)
handleListFileResources        == Query(<<"decode">>, "file", "file", FALSE)
handleRevokeFileResource       == Mutation(<<"decode">>, "file", "file", FALSE)
handleListPermissions          == Query(<<"decode">>, "permission", "none", FALSE)
handlePermissionRequirements   == Query(<<"decode">>, "permission", "none", FALSE)
handleGrantPermission          == Mutation(<<"decode">>, "permission", "none", FALSE)
handleRevokePermission         == Mutation(<<"decode">>, "permission", "none", FALSE)
handleListSecurityPolicies     == Query(<<"decode">>, "policy", "policy", FALSE)
handleGetSecurityPolicy        == Query(<<"decode", "path">>, "policy", "policy", FALSE)
handlePutSecurityPolicy        == Mutation(<<"path", "decode", "fields">>, "policy", "policy", FALSE)
handleDeleteSecurityPolicy     == Mutation(<<"path", "decode", "fields">>, "policy", "policy", FALSE)
handleListDiagnostics          == Query(<<"decode", "fields">>, "diagnostics", "none", FALSE)
handleBindSecret               == Mutation(<<"decode">>, "secret", "none", FALSE)
handleTestSecret               == Mutation(<<"decode">>, "secret", "none", FALSE)
handleDeleteSecret             == Mutation(<<"decode">>, "secret", "none", FALSE)
handleGetSettingsSchema        == Query(<<"path", "decode", "fields">>, "settings", "none", TRUE)
handleGetSettings              == Query(<<"path", "decode", "fields">>, "settings", "none", TRUE)
handlePatchSettings            == Mutation(<<"path", "decode", "revision", "fields">>, "settings", "values", TRUE)

routes ==
  [handleListRepositoryPlugins |-> handleListRepositoryPlugins,
   handleSetAutomaticUpdates |-> handleSetAutomaticUpdates,
   handleInspectPluginUpdate |-> handleInspectPluginUpdate,
   handleImportLocalPackageUpload |-> handleImportLocalPackageUpload,
   handleInspectExternalPackage |-> handleInspectExternalPackage,
   handleInspectUploadedExternalPackage |-> handleInspectUploadedExternalPackage,
   handleInspectUploadedExternalPackageUpdate |-> handleInspectUploadedExternalPackageUpdate,
   handleStartInspectedInstall |-> handleStartInspectedInstall,
   handleGetInspectedInstall |-> handleGetInspectedInstall,
   handleListInspectedInstalls |-> handleListInspectedInstalls,
   handleEnable |-> handleEnable,
   handleDisable |-> handleDisable,
   handleUninstall |-> handleUninstall,
   handleDowngrade |-> handleDowngrade,
   handleUpdateLocalPackageUpload |-> handleUpdateLocalPackageUpload,
   handleCatalog |-> handleCatalog,
   handleReadPluginIcon |-> handleReadPluginIcon,
   handleFeatures |-> handleFeatures,
   handleOpenSurface |-> handleOpenSurface,
   handleRevokeSessionScope |-> handleRevokeSessionScope,
   handlePrepareSurface |-> handlePrepareSurface,
   handleBridgeToken |-> handleBridgeToken,
   handleRejectSurfaceConfirmation |-> handleRejectSurfaceConfirmation,
   handleDisposeSurface |-> handleDisposeSurface,
   handleRPC |-> handleRPC,
   handlePrepareMethodConfirmation |-> handlePrepareMethodConfirmation,
   handlePrepareIntentConfirmation |-> handlePrepareIntentConfirmation,
   handleSurfaceMethods |-> handleSurfaceMethods,
   handleListIntents |-> handleListIntents,
   handleInvokeIntent |-> handleInvokeIntent,
   handleListExecutions |-> handleListExecutions,
   handleGetExecution |-> handleGetExecution,
   handleCancelExecution |-> handleCancelExecution,
   handleListExecutionEvents |-> handleListExecutionEvents,
   handleStartRuntime |-> handleStartRuntime,
   handleStopRuntime |-> handleStopRuntime,
   handleRuntimeHealth |-> handleRuntimeHealth,
   handleRecoverEnabledPlugins |-> handleRecoverEnabledPlugins,
   handleRetryRuntimeRecovery |-> handleRetryRuntimeRecovery,
   handleExportData |-> handleExportData,
   handleDeleteDataExport |-> handleDeleteDataExport,
   handleImportData |-> handleImportData,
   handleListRetainedData |-> handleListRetainedData,
   handleDeleteRetainedData |-> handleDeleteRetainedData,
   handleCleanupExpiredRetainedData |-> handleCleanupExpiredRetainedData,
   handleInspectRetainedRecovery |-> handleInspectRetainedRecovery,
   handleCommitRetainedRecovery |-> handleCommitRetainedRecovery,
   handleRetainedRecoveryStatus |-> handleRetainedRecoveryStatus,
   handleReviewConnection |-> handleReviewConnection,
   handleApproveConnection |-> handleApproveConnection,
   handleCancelConnectionReview |-> handleCancelConnectionReview,
   handleListConnections |-> handleListConnections,
   handleRevokeConnection |-> handleRevokeConnection,
   handleSelectFileResource |-> handleSelectFileResource,
   handleSurfaceFile |-> handleSurfaceFile,
   handleApproveFileResource |-> handleApproveFileResource,
   handleCancelFileResource |-> handleCancelFileResource,
   handleListFileResources |-> handleListFileResources,
   handleRevokeFileResource |-> handleRevokeFileResource,
   handleListPermissions |-> handleListPermissions,
   handlePermissionRequirements |-> handlePermissionRequirements,
   handleGrantPermission |-> handleGrantPermission,
   handleRevokePermission |-> handleRevokePermission,
   handleListSecurityPolicies |-> handleListSecurityPolicies,
   handleGetSecurityPolicy |-> handleGetSecurityPolicy,
   handlePutSecurityPolicy |-> handlePutSecurityPolicy,
   handleDeleteSecurityPolicy |-> handleDeleteSecurityPolicy,
   handleListDiagnostics |-> handleListDiagnostics,
   handleBindSecret |-> handleBindSecret,
   handleTestSecret |-> handleTestSecret,
   handleDeleteSecret |-> handleDeleteSecret,
   handleGetSettingsSchema |-> handleGetSettingsSchema,
   handleGetSettings |-> handleGetSettings,
   handlePatchSettings |-> handlePatchSettings]

-----------------------------------------------------------------------------
(* A request.                                                              *)

Init ==
  /\ req = Idle
  /\ result = NoResult
  /\ answer = NoAnswer

Effect == routes[req.route].effect

Write(envelope) ==
  /\ answer' = envelope
  /\ req' = [req EXCEPT !.stage = "answered"]

ServeHTTP ==
  /\ req.stage = "idle"
  /\ \E route \in DOMAIN routes : req' = [route |-> route, stage |-> "guard", next |-> 1]
  /\ UNCHANGED <<result, answer>>

\* No route matches: the envelope of a query, whatever the method.
NotFound ==
  /\ req.stage = "idle"
  /\ answer' = writeError("INVALID_REQUEST", 404, "none")
  /\ req' = [route |-> "none", stage |-> "answered", next |-> 0]
  /\ UNCHANGED result

\* Authenticate, a valid session, the origin, the CSRF token, the route's action.
authorizeRouteRequest ==
  /\ req.stage = "guard"
  /\ \/ req' = [req EXCEPT !.stage = "query"] /\ UNCHANGED answer
     \/ \E code \in {"PERMISSION_DENIED", "ORIGIN_DENIED", "CSRF_REQUIRED", "CSRF_INVALID",
                     "ACTION_DENIED"} :
          /\ code \in {"CSRF_REQUIRED", "CSRF_INVALID"} => req.route # "handleReadPluginIcon"
          /\ Write(writeRequestErrorForEffect(Effect, code, 403, "none"))
  /\ UNCHANGED result

\* A URL query string is refused before the handler runs.
bindRoute ==
  /\ req.stage = "query"
  /\ \/ req' = [req EXCEPT !.stage = "check"] /\ UNCHANGED answer
     \/ Write(writeRequestErrorForEffect(Effect, "INVALID_REQUEST", 400, "none"))
  /\ UNCHANGED result

\* What a failed check answers: <<code, status, details>>.
Rejections(check) ==
  CASE check = "path"     -> {<<"INVALID_REQUEST", 404, "none">>}
    [] check = "decode"   -> {<<"INVALID_REQUEST", 400, "none">>, <<"JSON_LIMIT_EXCEEDED", 400, "limit">>,
                              <<"JSON_LIMIT_EXCEEDED", 413, "limit">>}
    [] check \in {"fields", "revision"} -> {<<"INVALID_REQUEST", 400, "none">>}
    [] check = "media"    -> {<<"INVALID_REQUEST", 415, "none">>}
    [] check = "length"   -> {<<"INVALID_REQUEST", 400, "none">>, <<"PACKAGE_TOO_LARGE", 413, "package">>}
    [] check = "body"     -> {<<"INVALID_REQUEST", 400, "none">>, <<"INVALID_REQUEST", 413, "none">>}

\* The handler's next check of the request, and the call of the Host after the last.
Check ==
  /\ req.stage = "check"
  /\ \/ /\ req' = IF req.next < Len(routes[req.route].checks)
                    THEN [req EXCEPT !.next = @ + 1]
                    ELSE [req EXCEPT !.stage = "call"]
        /\ UNCHANGED answer
     \/ \E r \in Rejections(routes[req.route].checks[req.next]) :
          Write(writeRequestErrorForEffect(Effect, r[1], r[2], r[3]))
  /\ UNCHANGED result

\* The Host operation: it labels an error with the outcome when it knows one, and
\* an error without a label is raised before anything is committed.  A query runs
\* no plugin code.
CallHost ==
  /\ req.stage = "call"
  /\ \E err \in {{}} \cup Errors(routes[req.route].family),
        outcome \in {"none", "committed", "not_committed", "unknown"}, committed \in BOOLEAN :
       /\ err = {} => committed = (Effect = "mutation") /\ outcome = "none"
       /\ err # {} => /\ outcome = "committed" => committed
                      /\ outcome \in {"none", "not_committed"} => ~committed
                      /\ Effect = "query" => /\ ~committed /\ outcome = "none"
                                             /\ ~ Is(err, WorkerErrors \cup {"CapabilityBusiness"})
       /\ result' = [called |-> TRUE, err |-> err, outcome |-> outcome, committed |-> committed]
  /\ req' = [req EXCEPT !.stage = "respond"]
  /\ UNCHANGED answer

\* A canceled selection is a result of its own.
Canceled == req.route = "handleSelectFileResource" /\ "FileSelectionCanceled" \in result.err

\* The result: written as it is, unless it does not encode, or projected onto the wire,
\* which can fail.
\* handleSetAutomaticUpdates sends its projection error through the error tables.
RespondSuccess ==
  /\ req.stage = "respond"
  /\ result.err = {} \/ Canceled
  /\ \/ Write(Success)
     \/ Write(Replacement(Success))
     \/ /\ routes[req.route].projects
        /\ Write(IF req.route = "handleSetAutomaticUpdates"
                   THEN writeJSON(writeMutationError(errorCodeForManagementError({"Other"}),
                          httpStatusForManagementError({"Other"}), "none", ForError("none")))
                   ELSE writeProjectionError(Effect))
  /\ UNCHANGED result

\* The error: code and status from the family's tables, the details its source
\* yields, and on a mutation route the outcome.  The details of a capability error
\* may not survive cloning; the settings' current revision may not be readable.
RespondError ==
  /\ req.stage = "respond"
  /\ result.err # {} /\ ~Canceled
  /\ LET route == routes[req.route]
         details == DetailsOf(route.details, result.err)
     IN \E renewal \in (IF req.route = "handleBridgeToken" THEN BOOLEAN ELSE {FALSE}) :
        LET failure == Classify(route.family, result.err, renewal)
            envelope(d) == IF Effect = "mutation"
                             THEN writeMutationError(failure[1], failure[2], d, ForError(result.outcome))
                             ELSE writeError(failure[1], failure[2], d)
        IN \/ Write(writeJSON(envelope(details)))
           \/ details = "capability" /\ Write(writeProjectionError(Effect))
           \/ details = "values" /\ Write(writeJSON(envelope("none")))
  /\ UNCHANGED result

\* The response is sent; the next request is another goroutine's.
Sent ==
  /\ req.stage = "answered"
  /\ req' = Idle
  /\ result' = NoResult
  /\ answer' = NoAnswer

Next ==
  \/ ServeHTTP
  \/ NotFound
  \/ authorizeRouteRequest
  \/ bindRoute
  \/ Check
  \/ CallHost
  \/ RespondSuccess
  \/ RespondError
  \/ Sent

Spec == Init /\ [][Next]_vars

-----------------------------------------------------------------------------
(* Properties.                                                             *)

\* Whatever path writes it, an answer never contradicts what the Host did: it says
\* "not_committed" only if nothing was committed, and "committed" only if it was, be it
\* the answer to an error, to a result that cannot be projected, or what writeJSON puts
\* in place of a result or an error that does not encode (writeMutationError,
\* writeProjectionError, writeJSON).  The one exception is handleSetAutomaticUpdates,
\* whose projection failure is answered "not_committed".
AnswerTrue ==
  answer.kind \in {"mutation_error", "replacement"} /\ req.route # "handleSetAutomaticUpdates" =>
    /\ answer.outcome = "not_committed" => ~result.committed
    /\ answer.outcome = "committed" => result.committed

\* The error tables and the details agree on every route: an error's envelope is only
\* replaced where they cannot, which is a network policy error of a management
\* operation (its details are a package's), a revision conflict whose handler reads no
\* details or cannot, and two joined errors of which one has the details and the other
\* the code (writeJSON, validateForCode).
EnvelopesEncode ==
  answer.kind = "replacement" /\ result.err # {} /\ ~Canceled =>
    LET details == routes[req.route].details
    IN \/ Is(result.err, NetworkPolicy)
       \/ /\ Is(result.err, {"BindingRevisionConflict", "RevisionConflict"})
          /\ details \in {"none", "binding", "values"}
       \/ \E a, b \in result.err :
            /\ DetailsOf(details, {a}) # DetailsOf(details, {b})
            /\ DetailsOf(details, result.err) = DetailsOf(details, {a})
            /\ \E renewal \in BOOLEAN : Classify(routes[req.route].family, result.err, renewal)[1]
                                       = Classify(routes[req.route].family, {b}, renewal)[1]

=============================================================================
