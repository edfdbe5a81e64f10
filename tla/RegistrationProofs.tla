------------------------- MODULE RegistrationProofs -------------------------
(***************************************************************************)
(* Proofs about Registration.tla, for any number of threads, handles,      *)
(* sockets and epolls.                                                     *)
(***************************************************************************)
EXTENDS Registration, TLAPS

Keys == [epoll : Nat, file : Files, handle : Handles]
Calls == {Idle} \cup [at : {"store", "ctl"}, handle : Handles, epoll : Nat]

\* The types that TypeOK leaves open.
Typed ==
  /\ TypeOK
  /\ DOMAIN registered \subseteq Keys
  /\ registered \in [DOMAIN registered -> Settings]
  /\ call \in [Threads -> Calls]

-----------------------------------------------------------------------------
(* Helpers.                                                                *)

\* An add in progress and no add are told apart by their fields.
LEMMA CallKinds ==
  ASSUME NEW c \in Calls, c # Idle
  PROVE  c \in [at : {"store", "ctl"}, handle : Handles, epoll : Nat]
  BY DEF Calls

LEMMA BusyIsNotIdle ==
  ASSUME NEW c \in Calls, c.at # "idle"
  PROVE  c # Idle
  BY DEF Idle

\* An add in progress has an open handle and an existing epoll; so it has when
\* neither of the two went away.
LEMMA Busy ==
  ASSUME Typed, NEW t \in Threads, call[t] # Idle
  PROVE  /\ call[t] \in [at : {"store", "ctl"}, handle : Handles, epoll : Nat]
         /\ call[t].handle \in Handles /\ Open(call[t].handle)
         /\ call[t].epoll \in epolls
  BY CallKinds DEF Typed, TypeOK

LEMMA BusyKept ==
  ASSUME Typed, call' = call,
         \A t \in Threads :
           call[t] # Idle => /\ file'[call[t].handle] = file[call[t].handle]
                             /\ call[t].epoll \in epolls'
  PROVE  \A t \in Threads : call'[t] # Idle => Open(call[t].handle)' /\ call'[t].epoll \in epolls'
  BY Busy DEF Open

\* A new entry adds its own key to the kernel's list.
LEMMA AddCtlEffect ==
  ASSUME Typed, NEW t \in Threads, AddCtl(t)
  PROVE  LET key == Key(call[t].epoll, call[t].handle)
         IN  /\ call[t] \in [at : {"store", "ctl"}, handle : Handles, epoll : Nat]
             /\ call[t] # Idle
             /\ key \in Keys /\ key \notin DOMAIN registered
             /\ DOMAIN registered' = DOMAIN registered \cup {key}
             /\ registered' \in [DOMAIN registered' -> Settings]
             /\ call' \in [Threads -> Calls]
             /\ \A s \in Threads : call'[s] # Idle => s # t /\ call'[s] = call[s]
<1> DEFINE key == Key(call[t].epoll, call[t].handle)
<1>1. call[t] # Idle /\ call[t] \in Calls
  BY DEF Typed, AddCtl, Idle
<1>2. call[t] \in [at : {"store", "ctl"}, handle : Handles, epoll : Nat]
  BY <1>1, CallKinds
<1>3. file[call[t].handle] \in Files
  BY <1>1, <1>2 DEF Typed, TypeOK, Open
<1>4. key \in Keys
  BY <1>2, <1>3 DEF Key, Keys
<1>5. PICK s \in Settings :
        registered' = [k \in DOMAIN registered \cup {key} |-> IF k = key THEN s ELSE registered[k]]
  BY DEF AddCtl
<1>6. DOMAIN registered' = DOMAIN registered \cup {key}
  BY <1>5
<1>7. registered' \in [DOMAIN registered' -> Settings]
  BY <1>5, <1>6 DEF Typed
<1>8. call' = [call EXCEPT ![t] = Idle]
  BY DEF AddCtl
<1>9. key \notin DOMAIN registered
  BY DEF AddCtl
<1> QED
  BY <1>1, <1>2, <1>4, <1>6, <1>7, <1>8, <1>9 DEF Typed, Calls

\* Removing keys leaves the others as they are.
LEMMA UnregisterEffect ==
  ASSUME Typed, NEW keys, Unregister(keys)
  PROVE  /\ DOMAIN registered' = DOMAIN registered \ keys
         /\ registered' \in [DOMAIN registered' -> Settings]
         /\ \A key \in DOMAIN registered' : registered'[key] = registered[key]
         /\ orphans' = orphans \ keys
  BY DEF Typed, Unregister, Restrict

-----------------------------------------------------------------------------
(* Type correctness.                                                       *)

LEMMA InitTyped ==
  ASSUME Init
  PROVE  Typed
<1>1. DOMAIN registered = {}
  BY DEF Init
<1>2. registered \in [DOMAIN registered -> Settings]
  BY <1>1 DEF Init
<1> QED
  BY <1>1, <1>2, RegistrationAssumption DEF Init, Typed, TypeOK, Calls, Idle

LEMMA NextTyped ==
  ASSUME Typed, [Next]_regVars
  PROVE  Typed'
<1> USE DEF Typed, TypeOK
<1>1. CASE NewEpoll
  BY <1>1, RegistrationAssumption DEF NewEpoll, Open
<1>2. ASSUME NEW e \in epolls, DropEpoll(e)
      PROVE  Typed'
  <2>1. \A t \in Threads : call[t] # Idle => call[t].epoll # e
    BY <1>2 DEF DropEpoll, InUse
  <2> DEFINE keys == {key \in DOMAIN registered : key.epoll = e}
  <2>2. Unregister(keys)
    BY <1>2 DEF DropEpoll
  <2> HIDE DEF keys
  <2>3. /\ DOMAIN registered' = DOMAIN registered \ keys
        /\ registered' \in [DOMAIN registered' -> Settings]
        /\ orphans' = orphans \ keys
    BY <2>2, UnregisterEffect
  <2>4. epolls' = epolls \ {e} /\ UNCHANGED <<nextId, file, id, call>>
    BY <1>2 DEF DropEpoll
  <2>5. \A key \in DOMAIN registered' : key.epoll \in epolls'
    BY <2>3, <2>4 DEF keys
  <2>6. \A t \in Threads : call'[t] # Idle => Open(call[t].handle)' /\ call'[t].epoll \in epolls'
    <3>1. \A t \in Threads : call[t] # Idle => call[t].epoll \in epolls'
      BY <2>1, <2>4, Busy
    <3> QED
      BY <2>4, <3>1, BusyKept
  <2>7. epolls' \subseteq 1 .. nextId' /\ orphans' \subseteq DOMAIN registered'
    BY <2>3, <2>4
  <2>8. \A key \in DOMAIN registered' :
          registered'[key] \in Settings /\ (key \notin orphans' => file'[key.handle] = key.file)
    BY <2>3, <2>4
  <2> QED
    BY <2>3, <2>4, <2>5, <2>6, <2>7, <2>8
<1>3. ASSUME NEW h \in Handles, NewHandle(h)
      PROVE  Typed'
  <2>1. PICK f \in Files \ Range(file) : file' = [file EXCEPT ![h] = f]
    BY <1>3 DEF NewHandle
  <2>2. file[h] = NoFile /\ f # NoFile
    BY <1>3, RegistrationAssumption DEF NewHandle, Open
  <2>3. \A g \in Handles : g # h => file'[g] = file[g]
    BY <2>1
  <2>4. Range(file) \ {NoFile} \subseteq Range(file')
    BY <2>2, <2>3, <2>1 DEF Range
  <2>5. ASSUME NEW key \in DOMAIN registered, key \notin orphans
        PROVE  file'[key.handle] = key.file
    BY <2>2, <2>3, <2>5 DEF Keys
  <2>6. id' \in [Handles -> 0 .. nextId] /\ UNCHANGED <<nextId, epolls, registered, orphans, call>>
    BY <1>3 DEF NewHandle
  <2>7. \A t \in Threads : call'[t] # Idle => Open(call[t].handle)' /\ call'[t].epoll \in epolls'
    <3>1. \A t \in Threads : call[t] # Idle =>
            file'[call[t].handle] = file[call[t].handle] /\ call[t].epoll \in epolls'
      BY <2>2, <2>3, <2>6, Busy DEF Open
    <3> QED
      BY <2>6, <3>1, BusyKept
  <2>8. file' \in [Handles -> Files \cup {NoFile}]
    BY <2>1
  <2>9. \A key \in DOMAIN registered : key.file \in Range(file') \ {NoFile}
    BY <2>4
  <2> QED
    BY <2>5, <2>6, <2>7, <2>8, <2>9
<1>4. ASSUME NEW h \in Handles, DropHandle(h)
      PROVE  Typed'
  <2> DEFINE keys == {key \in DOMAIN registered : key.file = file[h]}
  <2>1. \A t \in Threads : call[t] # Idle => call[t].handle # h
    BY <1>4 DEF DropHandle, InUse
  <2>2. /\ file' = [file EXCEPT ![h] = NoFile] /\ file[h] \in Files
        /\ id' = [id EXCEPT ![h] = 0]
        /\ UNCHANGED <<nextId, epolls, call>>
    BY <1>4 DEF DropHandle, Open
  <2>3. \A t \in Threads : call[t] # Idle => Open(call[t].handle)' /\ call[t].epoll \in epolls
    BY <2>1, <2>2, CallKinds DEF Open
  <2>4. Range(file) \ {file[h]} \subseteq Range(file')
    BY <2>2 DEF Range
  <2>5. file' \in [Handles -> Files \cup {NoFile}] /\ id' \in [Handles -> 0 .. nextId']
    BY <2>2
  <2>6. CASE file[h] \in Range(file')
    <3>1. registered' = registered /\ orphans' = orphans \cup {key \in keys : key.handle = h}
      BY <1>4, <2>6 DEF DropHandle
    <3>2. \A key \in DOMAIN registered : key.file \in Range(file') \ {NoFile}
      BY <2>4, <2>6
    <3>3. ASSUME NEW key \in DOMAIN registered, key \notin orphans'
          PROVE  file'[key.handle] = key.file
      BY <2>2, <3>1, <3>3 DEF Keys
    <3> QED
      BY <2>2, <2>3, <2>5, <3>1, <3>2, <3>3
  <2>7. CASE file[h] \notin Range(file')
    <3>1. Unregister(keys)
      BY <1>4, <2>7 DEF DropHandle
    <3> HIDE DEF keys
    <3>2. /\ DOMAIN registered' = DOMAIN registered \ keys
          /\ registered' \in [DOMAIN registered' -> Settings]
          /\ orphans' = orphans \ keys
      BY <3>1, UnregisterEffect
    <3>3. \A key \in DOMAIN registered' : key.file \in Range(file') \ {NoFile}
      BY <2>4, <3>2 DEF keys
    <3>4. ASSUME NEW key \in DOMAIN registered', key \notin orphans'
          PROVE  file'[key.handle] = key.file
      <4>1. key \in Keys /\ file[key.handle] = key.file /\ key.file # file[h]
        BY <3>2, <3>4 DEF keys
      <4> QED
        BY <2>2, <4>1 DEF Keys
    <3> QED
      BY <2>2, <2>3, <2>5, <3>2, <3>3, <3>4
  <2> QED
    BY <2>6, <2>7
<1>5. ASSUME NEW h \in Handles, NEW clone \in Handles, TryClone(h, clone)
      PROVE  Typed'
  <2>1. /\ file' = [file EXCEPT ![clone] = file[h]]
        /\ file[clone] = NoFile /\ file[h] # NoFile
    BY <1>5 DEF TryClone, Open
  <2>2. Range(file) \ {NoFile} \subseteq Range(file')
    BY <2>1 DEF Range
  <2>3. ASSUME NEW key \in DOMAIN registered, key \notin orphans
        PROVE  file'[key.handle] = key.file
    BY <2>1, <2>3 DEF Keys
  <2> QED
    BY <1>5, <2>1, <2>2, <2>3 DEF TryClone, Open, Calls
<1>6. ASSUME NEW t \in Threads, NEW h \in Handles, NEW e \in epolls, AddLoad(t, h, e)
      PROVE  Typed'
  <2>1. call' = [call EXCEPT ![t] = Adding("store", h, e)] /\ Open(h)
    BY <1>6 DEF AddLoad
  <2>2. e \in Nat
    OBVIOUS
  <2>3. call' \in [Threads -> Calls]
    BY <2>1, <2>2 DEF Calls, Adding
  <2>4. \A s \in Threads : call'[s] # Idle => Open(call'[s].handle) /\ call'[s].epoll \in epolls
    BY <2>1 DEF Adding
  <2> QED
    BY <1>6, <2>3, <2>4 DEF AddLoad, Open
<1>7. ASSUME NEW t \in Threads, AddStore(t)
      PROVE  Typed'
  <2>1. call[t] \in [at : {"store", "ctl"}, handle : Handles, epoll : Nat] /\ call[t] # Idle
    BY <1>7, CallKinds, BusyIsNotIdle DEF AddStore
  <2>2. call' = [call EXCEPT ![t] = [call[t] EXCEPT !.at = "ctl"]]
    BY <1>7 DEF AddStore
  <2>3. call' \in [Threads -> Calls]
    BY <2>1, <2>2 DEF Calls
  <2>4. \A s \in Threads : call'[s] # Idle => Open(call'[s].handle) /\ call'[s].epoll \in epolls
    BY <2>1, <2>2
  <2>5. id' \in [Handles -> 0 .. nextId]
    BY <1>7, <2>1 DEF AddStore
  <2> QED
    BY <1>7, <2>3, <2>4, <2>5 DEF AddStore, Open
<1>8. ASSUME NEW t \in Threads, AddCtl(t)
      PROVE  Typed'
  <2> DEFINE key == Key(call[t].epoll, call[t].handle)
  <2>1. /\ call[t] \in [at : {"store", "ctl"}, handle : Handles, epoll : Nat] /\ call[t] # Idle
        /\ key \in Keys /\ key \notin DOMAIN registered
        /\ DOMAIN registered' = DOMAIN registered \cup {key}
        /\ registered' \in [DOMAIN registered' -> Settings]
        /\ call' \in [Threads -> Calls]
        /\ \A s \in Threads : call'[s] # Idle => s # t /\ call'[s] = call[s]
    BY <1>8, AddCtlEffect
  <2>2. UNCHANGED <<nextId, epolls, file, id, orphans>>
    BY <1>8 DEF AddCtl
  <2>3. key.epoll \in epolls /\ key.file = file[key.handle] /\ key.file # NoFile
    BY <2>1 DEF Key, Open
  <2>4. key.file \in Range(file) \ {NoFile}
    BY <2>1, <2>3 DEF Range, Keys
  <2> QED
    BY <2>1, <2>2, <2>3, <2>4 DEF Open
<1>9. ASSUME NEW t \in Threads, AddFails(t)
      PROVE  Typed'
  BY <1>9 DEF AddFails, Open, Calls
<1>10. ASSUME NEW h \in Handles, NEW e \in epolls, Delete(h, e)
       PROVE  Typed'
  BY <1>10, UnregisterEffect DEF Delete, Open
<1>11. ASSUME NEW h \in Handles, NEW e \in epolls, NEW s \in Settings, Modify(h, e, s)
       PROVE  Typed'
  BY <1>11 DEF Modify, Open
<1>12. CASE UNCHANGED regVars
  BY <1>12 DEF regVars, Open
<1> QED
  BY <1>1, <1>2, <1>3, <1>4, <1>5, <1>6, <1>7, <1>8, <1>9, <1>10, <1>11, <1>12 DEF Next

\* Whatever threads do at once, the kernel's registrations are those of
\* existing epolls and open sockets, and what no open handle names is an orphan.
THEOREM TypeCorrect == Spec => []TypeOK
<1>1. Spec => []Typed
  BY InitTyped, NextTyped, PTL DEF Spec
<1> QED
  BY <1>1, PTL DEF Typed

-----------------------------------------------------------------------------
(* One epoll per handle, when no two threads add a handle at once.         *)

\* An add has its handle to itself, and finds there what it loaded or stored.
SeparateAdds ==
  /\ \A s, t \in Threads :
       s # t /\ call[s] # Idle /\ call[t] # Idle => call[s].handle # call[t].handle
  /\ \A t \in Threads : call[t] # Idle => id[call[t].handle] \in {0, call[t].epoll}
  /\ \A t \in Threads :
       call[t] # Idle /\ call[t].at = "ctl" => id[call[t].handle] = call[t].epoll

IInv == Typed /\ SeparateAdds /\ OneEpollPerHandle

\* What a step that changes at most the id of h, which is in no add and in no
\* registration of its own, keeps.
LEMMA OtherIds ==
  ASSUME IInv, Typed', NEW h \in Handles, call' = call,
         \A g \in Handles \ {h} : id'[g] = id[g],
         \A t \in Threads : call[t] # Idle => call[t].handle # h,
         DOMAIN registered' \ orphans' \subseteq DOMAIN registered \ orphans,
         \A key \in DOMAIN registered' \ orphans' : key.handle # h
  PROVE  IInv'
<1>1. SeparateAdds'
  BY Busy DEF IInv, SeparateAdds
<1>2. \A key \in DOMAIN registered' \ orphans' : key.handle \in Handles
  BY DEF IInv, Typed, Keys
<1> QED
  BY <1>1, <1>2 DEF IInv, OneEpollPerHandle

\* The same for a step that touches no id and no add.
LEMMA SameIds ==
  ASSUME IInv, Typed', id' = id, call' = call,
         DOMAIN registered' \ orphans' \subseteq DOMAIN registered \ orphans
  PROVE  IInv'
<1>1. SeparateAdds'
  BY DEF IInv, SeparateAdds
<1> QED
  BY <1>1 DEF IInv, OneEpollPerHandle

LEMMA NextIInv ==
  ASSUME ~Overlap, IInv, [Next]_regVars
  PROVE  IInv'
<1>1. Typed /\ Typed'
  BY NextTyped DEF IInv
<1>2. CASE NewEpoll
  BY <1>1, <1>2, SameIds DEF NewEpoll
<1>3. ASSUME NEW e \in epolls, DropEpoll(e)
      PROVE  IInv'
  <2>1. Unregister({key \in DOMAIN registered : key.epoll = e}) /\ UNCHANGED <<id, call>>
    BY <1>3 DEF DropEpoll
  <2>2. DOMAIN registered' \ orphans' \subseteq DOMAIN registered \ orphans
    BY <1>1, <2>1, UnregisterEffect
  <2> QED
    BY <1>1, <2>1, <2>2, SameIds
\* Neither a new handle nor a clone was open before.
<1>4. ASSUME NEW h \in Handles, file[h] = NoFile, call' = call,
             \A g \in Handles \ {h} : id'[g] = id[g],
             UNCHANGED <<registered, orphans>>
      PROVE  IInv'
  <2>1. \A t \in Threads : call[t] # Idle => call[t].handle # h
    BY <1>1, <1>4, Busy DEF Open
  <2>2. \A key \in DOMAIN registered \ orphans : key.handle # h
    BY <1>1, <1>4 DEF Typed, TypeOK
  <2> QED
    BY <1>1, <1>4, <2>1, <2>2, OtherIds
<1>5. ASSUME NEW h \in Handles, NewHandle(h)
      PROVE  IInv'
  <2>1. file[h] = NoFile /\ UNCHANGED <<registered, orphans, call>>
    BY <1>5 DEF NewHandle, Open
  <2>2. \A g \in Handles \ {h} : id'[g] = id[g]
    BY <1>1, <1>5 DEF NewHandle, Typed, TypeOK
  <2> QED
    BY <1>4, <2>1, <2>2
<1>6. ASSUME NEW h \in Handles, NEW clone \in Handles, TryClone(h, clone)
      PROVE  IInv'
  <2>1. file[clone] = NoFile /\ UNCHANGED <<registered, orphans, call>>
    BY <1>6 DEF TryClone, Open
  <2>2. \A g \in Handles \ {clone} : id'[g] = id[g]
    BY <1>1, <1>6 DEF TryClone, Typed, TypeOK
  <2> QED
    BY <1>4, <2>1, <2>2
<1>7. ASSUME NEW h \in Handles, DropHandle(h)
      PROVE  IInv'
  <2> DEFINE keys == {key \in DOMAIN registered : key.file = file[h]}
  <2>1. \A t \in Threads : call[t] # Idle => call[t].handle # h
    BY <1>7 DEF DropHandle, InUse
  <2>2. \A g \in Handles \ {h} : id'[g] = id[g]
    BY <1>1, <1>7 DEF DropHandle, Typed, TypeOK
  <2>3. /\ DOMAIN registered' \ orphans' \subseteq DOMAIN registered \ orphans
        /\ DOMAIN registered' \ orphans' \subseteq
             {key \in DOMAIN registered : key.handle = h => key \notin keys}
    <3>1. CASE file[h] \in Range(file')
      <4>1. registered' = registered /\ orphans' = orphans \cup {key \in keys : key.handle = h}
        BY <1>7, <3>1 DEF DropHandle
      <4> QED
        BY <4>1
    <3>2. CASE file[h] \notin Range(file')
      <4>1. Unregister(keys)
        BY <1>7, <3>2 DEF DropHandle
      <4> HIDE DEF keys
      <4>2. DOMAIN registered' = DOMAIN registered \ keys /\ orphans' = orphans \ keys
        BY <1>1, <4>1, UnregisterEffect
      <4> QED
        BY <4>2
    <3> QED
      BY <3>1, <3>2
  <2>4. \A key \in DOMAIN registered' \ orphans' : key.handle # h
    BY <1>1, <2>3 DEF Typed, TypeOK
  <2>5. call' = call
    BY <1>7 DEF DropHandle
  <2> QED
    BY <1>1, <2>1, <2>2, <2>3, <2>4, <2>5, OtherIds
<1>8. ASSUME NEW t \in Threads, NEW h \in Handles, NEW e \in epolls, AddLoad(t, h, e)
      PROVE  IInv'
  <2>1. /\ call' = [call EXCEPT ![t] = Adding("store", h, e)] /\ id[h] \in {0, e}
        /\ \A s \in Threads : call[s] # Idle => call[s].handle # h
        /\ UNCHANGED <<id, registered, orphans>>
    BY <1>8 DEF AddLoad, InUse
  <2>2. \A s \in Threads \ {t} : call'[s] = call[s]
    BY <1>1, <2>1 DEF Typed
  <2>3. call'[t].handle = h /\ call'[t].epoll = e /\ call'[t].at = "store"
    BY <1>1, <2>1 DEF Typed, Adding
  <2>4. SeparateAdds'
    BY <2>1, <2>2, <2>3 DEF IInv, SeparateAdds
  <2> QED
    BY <1>1, <2>1, <2>4 DEF IInv, OneEpollPerHandle
\* The handle had no id yet, and then no registration, or has this one.
<1>9. ASSUME NEW t \in Threads, AddStore(t)
      PROVE  IInv'
  <2> DEFINE h == call[t].handle
             e == call[t].epoll
  <2>1. call[t] \in [at : {"store", "ctl"}, handle : Handles, epoll : Nat] /\ call[t] # Idle
        /\ e \in epolls
    BY <1>1, <1>9, Busy, BusyIsNotIdle DEF AddStore, Typed
  <2>2. /\ id' = [id EXCEPT ![h] = e] /\ UNCHANGED <<registered, orphans>>
        /\ call' = [call EXCEPT ![t] = [call[t] EXCEPT !.at = "ctl"]]
    BY <1>9 DEF AddStore
  <2>3. /\ id'[h] = e /\ \A g \in Handles \ {h} : id'[g] = id[g]
        /\ call'[t].handle = h /\ call'[t].epoll = e
        /\ \A s \in Threads \ {t} : call'[s] = call[s]
    BY <1>1, <2>1, <2>2 DEF Typed, TypeOK
  <2>4. \A s \in Threads \ {t} : call[s] # Idle => call[s].handle \in Handles \ {h}
    BY <1>1, <2>1, Busy DEF IInv, SeparateAdds
  <2> HIDE DEF h, e
  <2>5. SeparateAdds'
    <3>1. \A s \in Threads : call'[s] # Idle => call[s] # Idle /\ call'[s].handle = call[s].handle
      BY <2>1, <2>3 DEF h
    <3>2. \A s, u \in Threads :
            s # u /\ call'[s] # Idle /\ call'[u] # Idle => call'[s].handle # call'[u].handle
      BY <3>1 DEF IInv, SeparateAdds
    <3>3. \A s \in Threads \ {t} : call'[s] # Idle => id'[call'[s].handle] = id[call[s].handle]
      BY <2>3, <2>4
    <3> QED
      BY <2>3, <3>1, <3>2, <3>3 DEF IInv, SeparateAdds
  <2>6. id[h] \in {0, e}
    BY <2>1 DEF IInv, SeparateAdds, h, e
  <2>7. ASSUME NEW key \in DOMAIN registered \ orphans
        PROVE  id'[key.handle] = key.epoll
    <3>1. key.handle \in Handles /\ id[key.handle] = key.epoll /\ key.epoll # 0
      BY <1>1 DEF IInv, OneEpollPerHandle, Typed, TypeOK, Keys
    <3> QED
      BY <2>3, <2>6, <3>1
  <2> QED
    BY <1>1, <2>2, <2>5, <2>7 DEF IInv, OneEpollPerHandle
<1>10. ASSUME NEW t \in Threads, AddCtl(t)
       PROVE  IInv'
  <2> DEFINE key == Key(call[t].epoll, call[t].handle)
  <2>1. /\ DOMAIN registered' = DOMAIN registered \cup {key}
        /\ call[t] # Idle
        /\ \A s \in Threads : call'[s] # Idle => s # t /\ call'[s] = call[s]
    BY <1>1, <1>10, AddCtlEffect
  <2>2. UNCHANGED <<id, orphans>> /\ call[t].at = "ctl"
    BY <1>10 DEF AddCtl
  <2>3. id[key.handle] = key.epoll
    BY <2>1, <2>2 DEF IInv, SeparateAdds, Key
  <2>4. SeparateAdds'
    BY <2>1, <2>2 DEF IInv, SeparateAdds
  <2> QED
    BY <1>1, <2>1, <2>2, <2>3, <2>4 DEF IInv, OneEpollPerHandle
<1>11. ASSUME NEW t \in Threads, AddFails(t)
       PROVE  IInv'
  <2>1. call' = [call EXCEPT ![t] = Idle] /\ UNCHANGED <<id, registered, orphans>>
    BY <1>11 DEF AddFails
  <2>2. \A s \in Threads : call'[s] # Idle => call'[s] = call[s]
    BY <1>1, <2>1 DEF Typed
  <2>3. SeparateAdds'
    BY <2>1, <2>2 DEF IInv, SeparateAdds
  <2> QED
    BY <1>1, <2>1, <2>3 DEF IInv, OneEpollPerHandle
<1>12. ASSUME NEW h \in Handles, NEW e \in epolls, Delete(h, e)
       PROVE  IInv'
  <2>1. Unregister({Key(e, h)}) /\ UNCHANGED <<id, call>>
    BY <1>12 DEF Delete
  <2>2. DOMAIN registered' \ orphans' \subseteq DOMAIN registered \ orphans
    BY <1>1, <2>1, UnregisterEffect
  <2> QED
    BY <1>1, <2>1, <2>2, SameIds
<1>13. ASSUME NEW h \in Handles, NEW e \in epolls, NEW s \in Settings, Modify(h, e, s)
       PROVE  IInv'
  <2>1. DOMAIN registered' = DOMAIN registered /\ UNCHANGED <<id, call, orphans>>
    BY <1>1, <1>13 DEF Modify, Typed
  <2> QED
    BY <1>1, <2>1, SameIds
<1>14. CASE UNCHANGED regVars
  BY <1>1, <1>14, SameIds DEF regVars
<1> QED
  BY <1>2, <1>3, <1>5, <1>6, <1>7, <1>8, <1>9, <1>10, <1>11, <1>12, <1>13, <1>14 DEF Next

LEMMA InitIInv ==
  ASSUME Init
  PROVE  IInv
<1>1. call = [t \in Threads |-> Idle] /\ DOMAIN registered = {}
  BY DEF Init
<1> QED
  BY <1>1, InitTyped DEF IInv, SeparateAdds, OneEpollPerHandle

\* SelectorId keeps every handle in one epoll, the one it names, whatever was
\* deleted, dropped, cloned or refused before, as long as no two threads are
\* adding the handle at the same time.
THEOREM OneEpoll ==
  ASSUME ~Overlap
  PROVE  Spec => []OneEpollPerHandle
<1>1. IInv /\ [Next]_regVars => IInv'
  BY NextIInv
<1>2. Spec => []IInv
  BY <1>1, InitIInv, PTL DEF Spec
<1> QED
  BY <1>2, PTL DEF IInv

-----------------------------------------------------------------------------
(* Sockets stay where their handles are.                                   *)

\* Every handle of f after the step carries the id of one before.
LEMMA HomesKept ==
  ASSUME NEW f \in Files,
         \A g \in Handles : file'[g] = f =>
           \E h \in Handles : file[h] = f /\ id'[g] = id[h]
  PROVE  Homes(f)' \subseteq Homes(f)
  BY DEF Homes

LEMMA StepStaysHome ==
  ASSUME ~Overlap, IInv, Next,
         NEW f \in Files, 0 \notin Homes(f), Homes(f) # {}
  PROVE  Homes(f)' \subseteq Homes(f)
<1> DEFINE Kept == \A g \in Handles : file'[g] = f =>
                     \E h \in Handles : file[h] = f /\ id'[g] = id[h]
<1>1. /\ \A h \in Handles : file[h] = f => id[h] # 0
      /\ \E h \in Handles : file[h] = f
      /\ f # NoFile
  BY RegistrationAssumption DEF Homes
<1>2. Typed
  BY DEF IInv
<1>3. ASSUME UNCHANGED <<file, id>>
      PROVE  Kept
  BY <1>3
<1>4. ASSUME NEW h \in Handles, NewHandle(h)
      PROVE  Kept
  <2>1. PICK new \in Files \ Range(file) : file' = [file EXCEPT ![h] = new]
    BY <1>4 DEF NewHandle
  <2>2. new # f
    BY <1>1, <1>2 DEF Range, Typed, TypeOK
  <2>3. id' = [id EXCEPT ![h] = 0]
    BY <1>4 DEF NewHandle
  <2> QED
    BY <1>2, <2>1, <2>2, <2>3 DEF Typed, TypeOK
<1>5. ASSUME NEW h \in Handles, DropHandle(h)
      PROVE  Kept
  BY <1>1, <1>2, <1>5 DEF DropHandle, Typed, TypeOK
<1>6. ASSUME NEW h \in Handles, NEW clone \in Handles, TryClone(h, clone)
      PROVE  Kept
  BY <1>2, <1>6 DEF TryClone, Typed, TypeOK
<1>7. ASSUME NEW t \in Threads, AddStore(t)
      PROVE  Kept
  <2>1. call[t] # Idle /\ call[t].handle \in Handles
    BY <1>2, <1>7, Busy, BusyIsNotIdle DEF AddStore, Typed
  <2>2. id[call[t].handle] \in {0, call[t].epoll}
    BY <2>1 DEF IInv, SeparateAdds
  <2>3. id' = [id EXCEPT ![call[t].handle] = call[t].epoll] /\ file' = file
    BY <1>7 DEF AddStore
  <2> QED
    BY <1>1, <1>2, <2>1, <2>2, <2>3 DEF Typed, TypeOK
<1>8. Kept
  BY <1>3, <1>4, <1>5, <1>6, <1>7
     DEF Next, NewEpoll, DropEpoll, AddLoad, AddCtl, AddFails, Delete, Modify
<1> QED
  BY <1>8, HomesKept

\* A socket whose open handles were all added somewhere reaches no further
\* epoll, through clones or later adds, under the same condition.
THEOREM StaysHome ==
  ASSUME ~Overlap
  PROVE  Spec => SocketStaysHome
<1> DEFINE Stays == \A f \in Files : 0 \notin Homes(f) /\ Homes(f) # {}
                                       => Homes(f)' \subseteq Homes(f)
<1>1. IInv /\ [Next]_regVars => IInv'
  BY NextIInv
<1>2. IInv /\ Next => Stays
  BY StepStaysHome
<1>3. IInv /\ [Next]_regVars => [Stays]_regVars
  BY <1>2
<1> HIDE DEF Stays
<1>4. Spec => [][Stays]_regVars
  BY <1>1, <1>3, InitIInv, PTL DEF Spec
<1> QED
  BY <1>4 DEF SocketStaysHome, Stays
=============================================================================
