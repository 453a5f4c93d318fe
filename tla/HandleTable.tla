---------------------------- MODULE HandleTable ----------------------------
(***************************************************************************)
(* What the stream map promises to AviUtl, whatever the handle management  *)
(* mode: a table of open handles.  Opening a path yields a fresh handle on *)
(* the file the path names at that moment, the handle keeps naming that    *)
(* file until it is closed, closing one handle disturbs no other, and the  *)
(* bytes of a file do not change while a handle is open on it.             *)
(***************************************************************************)
EXTENDS Naturals

CONSTANTS Paths,   \* file paths AviUtl passes to func_open
          Files,   \* file identities (volume serial number and file index)
          NoFile,  \* what a path that names nothing resolves to
          MaxKey   \* bound on the number of handles ever issued

VARIABLES fs,      \* the file each path names
          ver,     \* the version of each file's content
          opened,  \* the file each handle is open on, NoFile when closed
          via,     \* the path each handle was opened with, NoFile when closed
          issued   \* how many handle keys have been used up

vars == <<fs, ver, opened, via, issued>>

Keys == 1..MaxKey

InUse(f) == \E k \in Keys : opened[k] = f

Init == /\ fs \in [Paths -> Files \cup {NoFile}]
        /\ ver = [f \in Files |-> 1]
        /\ opened = [k \in Keys |-> NoFile]
        /\ via = [k \in Keys |-> NoFile]
        /\ issued = 0

Open(p) == /\ issued < MaxKey
           /\ fs[p] \in Files
           /\ issued' = issued + 1
           /\ opened' = [opened EXCEPT ![issued + 1] = fs[p]]
           /\ via' = [via EXCEPT ![issued + 1] = p]
           /\ UNCHANGED <<fs, ver>>

\* An open that fails may still use up a key.
OpenFails == /\ issued < MaxKey
             /\ issued' = issued + 1
             /\ UNCHANGED <<fs, ver, opened, via>>

Close(k) == /\ opened' = [opened EXCEPT ![k] = NoFile]
            /\ via' = [via EXCEPT ![k] = NoFile]
            /\ UNCHANGED <<fs, ver, issued>>

CloseAll == /\ opened' = [k \in Keys |-> NoFile]
            /\ via' = [k \in Keys |-> NoFile]
            /\ UNCHANGED <<fs, ver, issued>>

Rewrite(f) == /\ ~InUse(f)
              /\ ver' = [ver EXCEPT ![f] = @ + 1]
              /\ UNCHANGED <<fs, opened, via, issued>>

Relink(p, f) == /\ fs[p] \in Files => ~InUse(fs[p])
                /\ fs' = [fs EXCEPT ![p] = f]
                /\ UNCHANGED <<ver, opened, via, issued>>

Next == \/ \E p \in Paths : Open(p)
        \/ OpenFails
        \/ \E k \in Keys : Close(k)
        \/ CloseAll
        \/ \E f \in Files : Rewrite(f)
        \/ \E p \in Paths, f \in Files \cup {NoFile} : Relink(p, f)

Spec == Init /\ [][Next]_vars
=============================================================================
