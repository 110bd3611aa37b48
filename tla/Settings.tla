------------------------------ MODULE Settings ------------------------------
(***************************************************************************)
(* What the user is promised of pano_ldr's settings: a save takes effect at *)
(* one moment, and from then on the setting has that value, after any boot  *)
(* and any command.  Nothing is said of blocks, entries or words.           *)
(*                                                                         *)
(* A power failure in a save may cost the promise for one setting, not      *)
(* always the one that was being saved, until that one is saved again; or   *)
(* it, a save that outgrows the room there is, and a power failure in an    *)
(* erasure may void the promise for all of them, until the user erases the  *)
(* block.  Outgrowing the room takes more saves than Capacity; until as     *)
(* many were begun none is dropped, either.                                 *)
(***************************************************************************)
EXTENDS Naturals

CONSTANTS
    Setting, Value,
    Default,    \* the value of each setting that was never saved
    Server,     \* the setting that a telnet connection may lend its address
    Peers,      \* those addresses
    Capacity    \* the saves there is room for, from one erasure to the next

VARIABLES
    stored,     \* the value last saved for each setting
    sure,       \* the settings for which the promise holds
    shown,      \* the values the loader works with
    saving,     \* the save that is under way, if any
    count,      \* the saves begun since the user erased the block
    ready,      \* no boot and no command is running
    void        \* nothing is promised any more

settings == <<stored, sure, shown, saving, count, ready, void>>

Init ==
    /\ stored = Default /\ sure = {} /\ shown = Default
    /\ saving = {} /\ count \in Nat
    /\ ready = FALSE /\ void \in BOOLEAN

\* The loader works with what was saved, or with an address it was lent.
Honours(s) == shown[s] = stored[s] \/ (s = Server /\ stored[s] = 0)

\* While it is busy the loader may work with any values.
Load ==
    /\ ~ready /\ shown' \in [Setting -> Value]
    /\ UNCHANGED <<stored, sure, saving, count, ready, void>>

Save(s, v) ==
    /\ ready /\ ready' = FALSE /\ saving' = {<<s, v>>}
    /\ UNCHANGED <<stored, sure, shown, count, void>>

\* The save is in flash; only one beyond those there is room for outgrows it.
Commit(s, v) ==
    /\ saving' = {} /\ stored' = [stored EXCEPT ![s] = v]
    /\ count' = count + 1
    /\ void' \in BOOLEAN /\ void => void'
    /\ void' => void \/ Capacity < count'
    /\ sure' = IF void' THEN {} ELSE sure \cup {s}
    /\ UNCHANGED <<shown, ready>>

\* The boot or the command is over; a save that found no room is dropped.
Finish ==
    /\ ~ready /\ ready' = TRUE
    /\ saving' = {} /\ (saving = {} \/ void \/ Capacity <= count)
    /\ \A s \in sure : Honours(s)
    /\ UNCHANGED <<stored, sure, shown, count, void>>

Lend ==
    /\ ready /\ shown[Server] = 0
    /\ \E ip \in Peers : shown' = [shown EXCEPT ![Server] = ip]
    /\ UNCHANGED <<stored, sure, saving, count, ready, void>>

Erase ==
    /\ ready /\ stored' = Default /\ sure' = {} /\ void' = FALSE /\ count' = 0
    /\ UNCHANGED <<shown, saving, ready>>

Restart == shown' = Default /\ saving' = {} /\ ready' = FALSE

PowerFail == Restart /\ UNCHANGED <<stored, sure, count, void>>

\* At most one setting is no longer sure, unless none is.
PowerFailSaving ==
    /\ saving # {} /\ Restart
    /\ void' \in BOOLEAN /\ void => void'
    /\ \E lost \in {{}} \cup {{s} : s \in Setting} :
         sure' = IF void' THEN {} ELSE sure \ lost
    /\ count' = count + 1
    /\ UNCHANGED stored

PowerFailErasing ==
    /\ ready /\ Restart
    /\ void' = TRUE /\ sure' = {} /\ stored' = Default /\ count' = 0

Next ==
    \/ Load \/ Finish \/ Lend \/ Erase
    \/ \E s \in Setting, v \in Value : Save(s, v)
    \/ \E save \in saving : Commit(save[1], save[2])
    \/ PowerFail \/ PowerFailSaving \/ PowerFailErasing

Spec == Init /\ [][Next]_settings

=============================================================================
