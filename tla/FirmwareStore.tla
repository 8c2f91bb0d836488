--------------------------- MODULE FirmwareStore ---------------------------
(***************************************************************************)
(* What the upload protocol promises to the flash scripts: the firmware    *)
(* files change only as a whole.  An upload announces a name and a         *)
(* content; the file of that name either stays what it was or becomes      *)
(* exactly the announced content, and no other file is touched.  A disk    *)
(* that fails may spoil the content, of that file alone.                   *)
(***************************************************************************)
CONSTANTS Names, Contents, NoFile

VARIABLES store,    \* store[n]: the content of firmware file n, or NoFile
          pending,  \* the announced upload, or nothing
          flawed    \* the names whose file the disk has spoilt

vars == <<store, pending, flawed>>

None == {}

Init ==
  /\ store \in [Names -> Contents \union {NoFile}]
  /\ pending = None
  /\ flawed = {}

Announce(n, c) ==
  /\ pending = None
  /\ pending' = {<<n, c>>}
  /\ UNCHANGED <<store, flawed>>

Abandon ==
  /\ pending' = None
  /\ UNCHANGED <<store, flawed>>

Commit(n, c) ==
  /\ pending = {<<n, c>>}
  /\ store' = [store EXCEPT ![n] = c]
  /\ pending' = None
  /\ flawed' = flawed \ {n}

Spoil(n, c) ==
  /\ pending = {<<n, c>>}
  /\ DOMAIN store' = Names /\ \A m \in Names \ {n} : store'[m] = store[m]
  /\ pending' = None
  /\ flawed' = flawed \union {n}

Next ==
  \/ \E n \in Names, c \in Contents  :
       Announce(n, c) \/ Commit(n, c) \/ Spoil(n, c)
  \/ Abandon

Spec == Init /\ [][Next]_vars
=============================================================================
