------------------------------ MODULE DiskEntry ------------------------------
(***************************************************************************)
(* What a running Runtime may count on of one entry of the AOT directory,  *)
(* seen with its own key and engine: the entry is absent, unusable (load   *)
(* answers an error) or whole.  While a runtime lives, publications only   *)
(* improve it.  DiskCache implements this specification; Preparation is    *)
(* built on it.                                                            *)
(***************************************************************************)
VARIABLES entry,   \* "absent", "unusable" or "whole"
          live     \* does any process use the directory?

EntryStates == {"absent", "unusable", "whole"}

Init == entry = "absent" /\ live = FALSE

(* The artifact is renamed into place; another publisher's may be there. *)
PublishArtifact == entry' = IF entry = "absent" THEN "unusable" ELSE entry

(* The metadata follows. *)
PublishMetadata == entry # "absent" /\ entry' = "whole"

Publish == live /\ (PublishArtifact \/ PublishMetadata) /\ UNCHANGED live

(* The last process stops, files are lost or cleared, another starts. *)
Offline ==
  /\ ~live \/ ~live'
  /\ live' \in BOOLEAN /\ entry' \in EntryStates

Next == Publish \/ Offline

Spec == Init /\ [][Next]_<<entry, live>>
=============================================================================
