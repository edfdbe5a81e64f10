----------------------------- MODULE EventMasks -----------------------------
(***************************************************************************)
(* The conversions between the crate's flags and the kernel's: masks for   *)
(* epoll_ctl (src/sys/epoll.rs) and poll (src/poll/event.rs), and what     *)
(* comes back.  A mask is a set of the names the constants have after      *)
(* EPOLL and POLL.                                                         *)
(***************************************************************************)
EXTENDS Ready

\* src/epoll/epoll_opt.rs: a bit set like Ready.
EpollOpt == SUBSET {"edge", "level", "oneshot"}
Edge == {"edge"}
Level == {"level"}
OneShot == {"oneshot"}

\* What the kernel can say of a descriptor.
KernelFlags == {"IN", "OUT", "PRI", "RDHUP", "HUP", "ERR", "NVAL"}

\* ioevent_to_epoll: the part that comes from the interest, and the part that
\* comes from the options, of which level overrules edge.
InterestMask(interest) ==
  {flag \in KernelFlags :
     \/ flag = "IN" /\ Contains(interest, Readable)
     \/ flag = "OUT" /\ Contains(interest, Writable)
     \/ flag = "RDHUP" /\ Contains(interest, Hup)}

\* Mutants: edge overrules level, and one-shot is forgotten.
OptMaskKeepsEdge(opts) ==
  {flag \in {"ET", "ONESHOT"} :
     \/ flag = "ET" /\ Contains(opts, Edge)
     \/ flag = "ONESHOT" /\ Contains(opts, OneShot)}
OptMaskForgetsOneShot(opts) ==
  {flag \in {"ET"} : Contains(opts, Edge) /\ ~Contains(opts, Level)}

OptMask(opts) ==
  {flag \in {"ET", "ONESHOT"} :
     \/ flag = "ET" /\ Contains(opts, Edge) /\ ~Contains(opts, Level)
     \/ flag = "ONESHOT" /\ Contains(opts, OneShot)}

\* Mutant: a hangup of the peer alone is not passed on.
ReadyOfEpollHupOnly(mask) ==
  {flag \in ReadyFlags :
     \/ flag = "readable" /\ mask \cap {"IN", "PRI"} # {}
     \/ flag = "writable" /\ "OUT" \in mask
     \/ flag = "error" /\ "ERR" \in mask
     \/ flag = "hup" /\ "HUP" \in mask}

\* Events::get
ReadyOfEpoll(mask) ==
  {flag \in ReadyFlags :
     \/ flag = "readable" /\ mask \cap {"IN", "PRI"} # {}
     \/ flag = "writable" /\ "OUT" \in mask
     \/ flag = "error" /\ "ERR" \in mask
     \/ flag = "hup" /\ mask \cap {"RDHUP", "HUP"} # {}}

\* ioevent_to_poll
PollMask(interest) ==
  {flag \in KernelFlags :
     \/ flag = "IN" /\ Contains(interest, Readable)
     \/ flag = "OUT" /\ Contains(interest, Writable)
     \/ flag = "HUP" /\ Contains(interest, Hup)}

\* Mutant: an error hides a hangup.
ReadyOfPollErrorElseHup(mask) ==
  {flag \in ReadyFlags :
     \/ flag = "readable" /\ mask \cap {"IN", "PRI"} # {}
     \/ flag = "writable" /\ "OUT" \in mask
     \/ flag = "error" /\ "ERR" \in mask
     \/ flag = "hup" /\ "HUP" \in mask /\ "ERR" \notin mask}

\* poll_to_ioevent
ReadyOfPoll(mask) ==
  {flag \in ReadyFlags :
     \/ flag = "readable" /\ mask \cap {"IN", "PRI"} # {}
     \/ flag = "writable" /\ "OUT" \in mask
     \/ flag = "error" /\ "ERR" \in mask
     \/ flag = "hup" /\ "HUP" \in mask}
=============================================================================
