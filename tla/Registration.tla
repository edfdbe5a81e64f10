---------------------------- MODULE Registration ----------------------------
(***************************************************************************)
(* Registration of TcpStream, TcpListener, UnixStream and UnixListener     *)
(* with epolls: SelectorId and Epoll::add, modify and delete of            *)
(* src/epoll/mod.rs, src/sys/epoll.rs, and the Source impls of src/net.    *)
(*                                                                         *)
(* A handle is a value of one of the four types.  It stands for its file   *)
(* descriptor, so it is used again after it was dropped, and try_clone     *)
(* gives one file two handles.  The kernel, which is external, keys a      *)
(* registration by epoll, file and descriptor, and removes it when the     *)
(* last handle of the file is closed.                                      *)
(*                                                                         *)
(* A call whose arguments validate_args refuses, or that fails without     *)
(* having changed anything, is no step.  Descriptors taken out with        *)
(* as_raw_fd or into_raw_fd and registered by themselves bypass SelectorId *)
(* and are left out.                                                       *)
(***************************************************************************)
EXTENDS Naturals, FiniteSets, Functions

CONSTANTS
  Threads, Handles, Files,
  MaxEpolls,   \* epolls created in a run
  Settings,    \* valid triples of token, interest and opts
  NoFile,      \* what a handle that is not open refers to
  Overlap      \* whether two threads may be adding the same handle at once

ASSUME RegistrationAssumption ==
  /\ MaxEpolls \in Nat
  /\ NoFile \notin Files
  /\ Overlap \in BOOLEAN

VARIABLES
  nextId,      \* NEXT_ID
  epolls,      \* the ids of the epolls that exist
  file,        \* the file each handle refers to
  id,          \* the SelectorId of each handle, 0 for none
  registered,  \* the kernel's registrations: a function from keys to settings
  orphans,     \* the keys whose handle was dropped
  call         \* the add each thread is executing

regVars == <<nextId, epolls, file, id, registered, orphans, call>>

Idle == [at |-> "idle"]
Adding(at, h, e) == [at |-> at, handle |-> h, epoll |-> e]

Open(h) == file[h] # NoFile
Key(e, h) == [epoll |-> e, file |-> file[h], handle |-> h]

Init ==
  /\ nextId = 0
  /\ epolls = {}
  /\ file = [h \in Handles |-> NoFile]
  /\ id = [h \in Handles |-> 0]
  /\ registered = <<>>
  /\ orphans = {}
  /\ call = [t \in Threads |-> Idle]

InUse(part) == \E t \in Threads : call[t] # Idle /\ part \in {call[t].handle, call[t].epoll}
Unregister(keys) ==
  /\ registered' = Restrict(registered, DOMAIN registered \ keys)
  /\ orphans' = orphans \ keys

-----------------------------------------------------------------------------
(* Epolls and handles come and go.  &Epoll and &self keep them alive for   *)
(* the time of a call.                                                     *)

\* Mutant: the id is what fetch_add returns.
NewEpollFromZero ==
  /\ nextId < MaxEpolls
  /\ nextId' = nextId + 1
  /\ epolls' = epolls \cup {nextId}
  /\ UNCHANGED <<file, id, registered, orphans, call>>

NewEpoll ==
  /\ nextId < MaxEpolls
  /\ nextId' = nextId + 1
  /\ epolls' = epolls \cup {nextId + 1}
  /\ UNCHANGED <<file, id, registered, orphans, call>>

\* Mutant: dropping an Epoll does not close its descriptor.
DropEpollLeaks(e) ==
  /\ e \in epolls /\ ~InUse(e)
  /\ epolls' = epolls \ {e}
  /\ UNCHANGED <<nextId, file, id, registered, orphans, call>>

DropEpoll(e) ==
  /\ e \in epolls /\ ~InUse(e)
  /\ epolls' = epolls \ {e}
  /\ Unregister({key \in DOMAIN registered : key.epoll = e})
  /\ UNCHANGED <<nextId, file, id, call>>

\* connect, accept, bind, pair, from_stream, from_raw_fd.
NewHandle(h) ==
  /\ ~Open(h)
  /\ \E f \in Files \ Range(file) : file' = [file EXCEPT ![h] = f]
  /\ id' = [id EXCEPT ![h] = 0]
  /\ UNCHANGED <<nextId, epolls, registered, orphans, call>>

\* Mutant: the clone starts with a SelectorId of its own.
TryCloneFresh(h, clone) ==
  /\ Open(h) /\ ~Open(clone)
  /\ file' = [file EXCEPT ![clone] = file[h]]
  /\ id' = [id EXCEPT ![clone] = 0]
  /\ UNCHANGED <<nextId, epolls, registered, orphans, call>>

TryClone(h, clone) ==
  /\ Open(h) /\ ~Open(clone)
  /\ file' = [file EXCEPT ![clone] = file[h]]
  /\ id' = [id EXCEPT ![clone] = id[h]]
  /\ UNCHANGED <<nextId, epolls, registered, orphans, call>>

DropHandle(h) ==
  /\ Open(h) /\ ~InUse(h)
  /\ file' = [file EXCEPT ![h] = NoFile]
  /\ id' = [id EXCEPT ![h] = 0]
  /\ LET keys == {key \in DOMAIN registered : key.file = file[h]}
     IN  IF file[h] \in Range(file')
         THEN /\ orphans' = orphans \cup {key \in keys : key.handle = h}
              /\ UNCHANGED registered
         ELSE Unregister(keys)
  /\ UNCHANGED <<nextId, epolls, call>>

-----------------------------------------------------------------------------
(* Source::add: associate_selector, a load and a store, then epoll_ctl.    *)

\* A handle with the id of another epoll is refused.
AddLoad(t, h, e) ==
  /\ call[t] = Idle /\ Open(h) /\ e \in epolls
  /\ Overlap \/ ~InUse(h)
  /\ id[h] \in {0, e}
  /\ call' = [call EXCEPT ![t] = Adding("store", h, e)]
  /\ UNCHANGED <<nextId, epolls, file, id, registered, orphans>>

AddStore(t) ==
  /\ call[t].at = "store"
  /\ id' = [id EXCEPT ![call[t].handle] = call[t].epoll]
  /\ call' = [call EXCEPT ![t].at = "ctl"]
  /\ UNCHANGED <<nextId, epolls, file, registered, orphans>>

AddCtl(t) ==
  /\ call[t].at = "ctl"
  /\ LET key == Key(call[t].epoll, call[t].handle)
     IN  /\ key \notin DOMAIN registered
         /\ \E s \in Settings :
              registered' = [k \in DOMAIN registered \cup {key} |->
                               IF k = key THEN s ELSE registered[k]]
  /\ call' = [call EXCEPT ![t] = Idle]
  /\ UNCHANGED <<nextId, epolls, file, id, orphans>>

\* The kernel refuses (EEXIST when the key is taken, ENOSPC or ENOMEM at any
\* time), or validate_args does if Source::add was called directly.  The
\* stored id stays.
AddFails(t) ==
  /\ call[t].at = "ctl"
  /\ call' = [call EXCEPT ![t] = Idle]
  /\ UNCHANGED <<nextId, epolls, file, id, registered, orphans>>

-----------------------------------------------------------------------------
(* modify and delete do not look at the SelectorId.  On a key that is not  *)
(* registered the kernel answers ENOENT.                                   *)

Modify(h, e, s) ==
  /\ Open(h) /\ Key(e, h) \in DOMAIN registered
  /\ registered' = [registered EXCEPT ![Key(e, h)] = s]
  /\ UNCHANGED <<nextId, epolls, file, id, orphans, call>>

Delete(h, e) ==
  /\ Open(h) /\ Key(e, h) \in DOMAIN registered
  /\ Unregister({Key(e, h)})
  /\ UNCHANGED <<nextId, epolls, file, id, call>>

Next ==
  \/ NewEpoll
  \/ \E e \in epolls : DropEpoll(e)
  \/ \E h \in Handles : NewHandle(h) \/ DropHandle(h)
  \/ \E h, clone \in Handles : TryClone(h, clone)
  \/ \E t \in Threads, h \in Handles, e \in epolls : AddLoad(t, h, e)
  \/ \E t \in Threads : AddStore(t) \/ AddCtl(t) \/ AddFails(t)
  \/ \E h \in Handles, e \in epolls : Delete(h, e) \/ \E s \in Settings : Modify(h, e, s)

Spec == Init /\ [][Next]_regVars

-----------------------------------------------------------------------------
(* Properties.                                                             *)

\* Registrations are those of existing epolls and open files, and what is
\* not an orphan is held through an open handle.
TypeOK ==
  /\ nextId \in 0 .. MaxEpolls
  /\ epolls \subseteq 1 .. nextId
  /\ file \in [Handles -> Files \cup {NoFile}]
  /\ id \in [Handles -> 0 .. nextId]
  /\ orphans \subseteq DOMAIN registered
  /\ \A key \in DOMAIN registered :
       /\ registered[key] \in Settings
       /\ key.epoll \in epolls
       /\ key.file \in Range(file) \ {NoFile}
       /\ key \notin orphans => file[key.handle] = key.file
  /\ \A t \in Threads :
       call[t] # Idle => Open(call[t].handle) /\ call[t].epoll \in epolls

\* "socket already added" (epoll/mod.rs:122): a handle is registered, by
\* itself, with one epoll at most, the one its SelectorId names; whatever
\* was deleted, dropped, cloned or refused by the kernel before.
OneEpollPerHandle ==
  \A key \in DOMAIN registered \ orphans : id[key.handle] = key.epoll

\* The ids that the open handles of a file carry.
Homes(f) == {id[h] : h \in {g \in Handles : file[g] = f}}

\* Once every handle of a socket was added somewhere, the socket reaches no
\* further epoll for as long as it is open: not through a clone made later,
\* not after delete, a failed add or the end of the epoll it was added to.
SocketStaysHome ==
  [][\A f \in Files : 0 \notin Homes(f) /\ Homes(f) # {}
                       => Homes(f)' \subseteq Homes(f)]_regVars
=============================================================================
