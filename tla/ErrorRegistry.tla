--------------------------- MODULE ErrorRegistry ---------------------------
(***************************************************************************)
(* contracts::errors: the codes of SpaceError and how each is classified,  *)
(* and cloud/api's choice of an HTTP status for a code.  An NTSTATUS is    *)
(* its name; a startup-only code has none.                                 *)
(***************************************************************************)
EXTENDS Naturals

StartupOnly == {"ConfigMissing", "ConfigInvalid", "ConfigUnsupportedVersion"}

Missing ==
  {"FileNotFound", "VersionNotFound", "ManifestNotFound", "ChunkNotFound"}

Integrity ==
  {"IntegrityHashMismatch", "IntegrityLengthMismatch", "IntegrityManifestInvalid",
   "IntegrityChunkIdConflict"}

ErrorCode ==
  StartupOnly \cup Missing \cup Integrity \cup
  {"FileExists", "DirectoryNotEmpty", "InvalidParameter", "InvalidHandle",
   "NetworkTimeout", "NetworkUnavailable", "ProtocolViolation", "StorageError",
   "DiskFull", "ResourceExhausted", "Cancelled", "SharingViolation",
   "AuthFailed", "PermissionDenied", "InternalError"}

is_startup_only(code) == code \in StartupOnly

retryable(code) ==
  code \in {"NetworkTimeout", "NetworkUnavailable", "ResourceExhausted"}

(* The side of the boundary a code can come from. *)
origin(code) ==
  CASE code \in StartupOnly \cup
         {"InvalidHandle", "NetworkTimeout", "NetworkUnavailable", "Cancelled",
          "SharingViolation"} -> "Client"
    [] code \in {"AuthFailed", "PermissionDenied"} -> "Server"
    [] OTHER -> "Either"

ntstatus(code) ==
  CASE code \in StartupOnly -> "none"
    [] code \in Missing -> "OBJECT_NAME_NOT_FOUND"
    [] code \in Integrity -> "FILE_CORRUPT_ERROR"
    [] code = "FileExists" -> "OBJECT_NAME_COLLISION"
    [] code = "DirectoryNotEmpty" -> "DIRECTORY_NOT_EMPTY"
    [] code = "InvalidParameter" -> "INVALID_PARAMETER"
    [] code = "InvalidHandle" -> "INVALID_HANDLE"
    [] code = "NetworkTimeout" -> "IO_TIMEOUT"
    [] code = "NetworkUnavailable" -> "UNEXPECTED_NETWORK_ERROR"
    [] code \in {"ProtocolViolation", "StorageError"} -> "IO_DEVICE_ERROR"
    [] code = "DiskFull" -> "DISK_FULL"
    [] code = "ResourceExhausted" -> "INSUFFICIENT_RESOURCES"
    [] code = "Cancelled" -> "CANCELLED"
    [] code = "SharingViolation" -> "SHARING_VIOLATION"
    [] code \in {"AuthFailed", "PermissionDenied"} -> "ACCESS_DENIED"
    [] code = "InternalError" -> "INTERNAL_ERROR"

(* Fault: a missing object is an empty success. *)
status_for_no_content(code) == IF code \in Missing THEN 204 ELSE 500

(* The HTTP status of an ErrorResponse. *)
status_for(code) ==
  CASE code \in Missing -> 404
    [] code \in {"FileExists", "DirectoryNotEmpty", "SharingViolation",
                 "IntegrityChunkIdConflict"} -> 409
    [] code \in StartupOnly \cup
         {"InvalidParameter", "InvalidHandle", "ProtocolViolation"} -> 400
    [] code \in Integrity \ {"IntegrityChunkIdConflict"} -> 422
    [] code = "AuthFailed" -> 401
    [] code = "PermissionDenied" -> 403
    [] code \in {"NetworkTimeout", "NetworkUnavailable"} -> 504
    [] code = "ResourceExhausted" -> 429
    [] code \in {"DiskFull", "StorageError", "Cancelled", "InternalError"} -> 500
=============================================================================
