----------------------------- MODULE MCSignals ------------------------------
(* Instances of Signals for TLC.                                           *)
EXTENDS Signals

MCSig == {SIGINT, SIGKILL, SIGSEGV, SIGCHLD}

Action(h, m, nodefer) == [handler |-> h, mask |-> m, nodefer |-> nodefer]

User(m, nodefer) == Action("user", m, nodefer)

MCActions ==
  {<<SIGINT, Default>>, <<SIGINT, User({SIGKILL, SIGCHLD}, FALSE)>>,
   <<SIGINT, User({}, TRUE)>>, <<SIGSEGV, Action("SIG_IGN", {}, FALSE)>>,
   <<SIGCHLD, User({}, FALSE)>>, <<SIGKILL, User({}, FALSE)>>}

MCMasks == {{SIGINT, SIGKILL}}
=============================================================================
