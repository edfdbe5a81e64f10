------------------------------- MODULE Ready -------------------------------
(***************************************************************************)
(* src/epoll/ready.rs, and src/poll/ready.rs, which is the same over i16:  *)
(* the readiness bit set.  A Ready value is the set of the flags whose bit *)
(* is 1, so insert and | are \cup, & is \cap, remove and - are set         *)
(* difference.  Bits without a name, which only Ready::from and ! can set, *)
(* are left out.                                                           *)
(***************************************************************************)

ReadyFlags == {"readable", "writable", "error", "hup"}
ReadySet == SUBSET ReadyFlags

Empty == {}
Readable == {"readable"}
Writable == {"writable"}
Hup == {"hup"}

Contains(ready, other) == other \subseteq ready
=============================================================================
