----------------------------- MODULE SavedStore -----------------------------
(***************************************************************************)
(* What the client's store promises of its file: every change of the store *)
(* is followed by a save; a save writes a copy of the whole store, taken   *)
(* while it runs, in place of what the file had; a restart finds what the  *)
(* file says, and a file cut short says nothing.  As long as no two saves  *)
(* hold copies at once and none fails, copies reach the file in the order  *)
(* they were taken, and once no save is left the file has all that is in   *)
(* the store.                                                              *)
(* ProxyStore implements it.                                               *)
(***************************************************************************)

CONSTANT Empty  \* a store with nothing in it

VARIABLES
  mem,     \* the store
  disk,    \* what a restart would find in the file
  held,    \* the copies that saves under way have taken
  saving,  \* a save is under way, or will be
  orderly  \* since the last restart no two saves have held copies at once, and none failed

vars == <<mem, disk, held, saving, orderly>>

Init ==
  /\ mem = Empty
  /\ disk = Empty
  /\ held = {}
  /\ saving = FALSE
  /\ orderly = TRUE

\* A call, whatever it does to the store: a save will follow.
Change ==
  /\ saving' = TRUE
  /\ UNCHANGED <<disk, held, orderly>>

\* A save copies the store.
Take ==
  /\ saving = TRUE
  /\ held' = held \cup {mem}
  /\ orderly' = (orderly /\ held = {})
  /\ UNCHANGED <<mem, disk, saving>>

\* It cuts the file to nothing ...
Cut ==
  /\ held # {}
  /\ disk' = Empty
  /\ UNCHANGED <<mem, held, saving, orderly>>

\* ... and writes its copy, or, where two were at it, something nobody can read.  The last
\* save leaves no other copy behind.
Put(d) ==
  /\ disk' = d \/ (~orderly /\ disk' = Empty)
  /\ held' \in {held, held \ {d}}
  /\ saving' \in BOOLEAN
  /\ orderly \/ ~saving' => held' = {}
  /\ orderly /\ ~saving' => disk' = mem
  /\ UNCHANGED <<mem, orderly>>

\* A save fails.  The file may be cut short.
Fail(d) ==
  /\ disk' \in {disk, Empty}
  /\ held' \in {held, held \ {d}}
  /\ saving' \in BOOLEAN
  /\ ~saving' => held' = {}
  /\ orderly' = FALSE
  /\ UNCHANGED mem

\* The process is killed, and started again.
Crash ==
  /\ mem' = disk
  /\ held' = {}
  /\ saving' = FALSE
  /\ orderly' = TRUE
  /\ UNCHANGED disk

Next ==
  \/ Change
  \/ Take
  \/ Cut
  \/ \E d \in held : Put(d) \/ Fail(d)
  \/ Crash

Spec == Init /\ [][Next]_vars
=============================================================================
