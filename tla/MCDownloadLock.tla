--------------------------- MODULE MCDownloadLock ---------------------------
(* Instances of DownloadLock for TLC. *)
EXTENDS DownloadLock

=============================================================================
