-------------------------------- MODULE Images --------------------------------
(***************************************************************************)
(* The pictures of cocktails on the server's disk (image.service.ts,        *)
(* image-cleanup.service.ts).  A picture becomes two files, written one     *)
(* after the other before any row names them; a nightly job is meant to     *)
(* remove the files that no row names.  A picture is called after the       *)
(* request that brought it.                                                *)
(***************************************************************************)
EXTENDS Integers, FiniteSets

CONSTANT Null
ASSUME NullAssumption == Null \notin Nat

VARIABLES disk,    \* files: [pic, part, old], old once an hour has passed
          photo,   \* request to how far its picture has come, "none" at first
          sweep    \* the nightly job (bound: one in a behaviour): [pc, found], and
                 \* as history the files it took

pictures == <<disk, photo, sweep>>
Parts == {"full", "thumb"}
Files(p, old) == {[pic |-> p, part |-> part, old |-> old] : part \in Parts}
HasPart(p, part) == \E f \in disk : f.pic = p /\ f.part = part
\* The disk once the files of a picture are unlinked.
Without(p) == {f \in disk : f.pic # p}

\* processAndSaveImage, processAndSaveBuffer: refused, or written as a whole and
\* then as a thumbnail; what is on the disk by then stays when the second fails.
Write(r, part, next) ==
  /\ photo[r] = part
  /\ \E ok \in BOOLEAN :
       /\ photo' = [photo EXCEPT ![r] = IF ok THEN next ELSE "broken"]
       /\ disk' = IF ok THEN disk \cup {[pic |-> r, part |-> part, old |-> FALSE]} ELSE disk
  /\ UNCHANGED sweep
WriteFull(r) == Write(r, "full", "thumb")
WriteThumb(r) == Write(r, "thumb", "saved")

\* cleanupOrphanImages: lists the directory, then reads what the rows name, then
\* looks at the rest file by file.
SweepList ==
  /\ sweep.pc = "idle" /\ disk # {}
  /\ sweep' = [sweep EXCEPT !.pc = "read",
                            !.found = {[pic |-> f.pic, part |-> f.part] : f \in disk}]
  /\ UNCHANGED <<disk, photo>>
\* The raw rows of the query have no such keys as the code reads, cocktail_image_full
\* and cocktail_image_thumb: no picture counts as named.
Referenced == {}
SweepRead ==
  /\ sweep.pc = "read"
  /\ sweep' = [sweep EXCEPT !.pc = "remove", !.found = {f \in @ : f.pic \notin Referenced}]
  /\ UNCHANGED <<disk, photo>>
\* Variant: however young.
RemovableAny(f) == TRUE
Removable(f) == f.old
SweepFile ==
  /\ sweep.pc = "remove"
  /\ \E f \in sweep.found :
       LET gone == {g \in disk : g.pic = f.pic /\ g.part = f.part /\ Removable(g)}
       IN  /\ disk' = disk \ gone
           /\ sweep' = [sweep EXCEPT !.found = @ \ {f}, !.took = @ \cup gone]
  /\ UNCHANGED photo
\* The files of picture p are on the disk, but for those that the job took when
\* they were an hour old.
Accounted(p) ==
  \A part \in Parts : HasPart(p, part) \/ [pic |-> p, part |-> part, old |-> TRUE] \in sweep.took
\* An hour goes by; no request, download or job takes that long.
HourPasses(quiet) ==
  /\ quiet /\ sweep.pc = "idle"
  /\ \E f \in disk : ~f.old
  /\ disk' = {[f EXCEPT !.old = TRUE] : f \in disk}
  /\ UNCHANGED <<photo, sweep>>
=============================================================================
