------------------------------ MODULE EventLoop -----------------------------
(***************************************************************************)
(* EventLoop::wait_next_event (src/util/eventloop) for a list of rules on  *)
(* file descriptors, each a record with a direction, "In" or "Out".  What  *)
(* the rules do is given by the module's user as operators on a rule and   *)
(* the state s of the thread that runs the loop.                           *)
(*                                                                         *)
(* A call is two steps: it asks every rule for its interest and polls; it  *)
(* walks the rules with what poll has returned.  Between the two, other    *)
(* threads run.  Operators return the set of their outcomes.               *)
(***************************************************************************)
EXTENDS Integers, Sequences

CONSTANTS
    Interest(_, _),         \* interest()
    Callback(_, _),         \* callback(): outcomes [s, served], served if the fd was read or written
    Cancel(_, _),           \* s after cancel()
    Error(_, _),            \* s after error()
    AtEof(_, _),            \* fd.eof()
    Closed(_, _),           \* fd.closed()
    Revents(_, _)           \* what holds of the fd: [ready, hup, err]

(***************************************************************************)
(* Before poll: a rule whose descriptor has ended goes, the others say     *)
(* whether they want events.                                               *)
(***************************************************************************)
PrepareRule(c, rule) ==
    IF Closed(rule, c.s) \/ (rule.direction = "In" /\ AtEof(rule, c.s))
    THEN [c EXCEPT !.s = Cancel(rule, @)]
    ELSE [c EXCEPT !.rules = Append(@, rule), !.events = Append(@, Interest(rule, c.s))]

Prepare(rules, s) ==
    LET after[k \in 0 .. Len(rules)] ==
            IF k = 0 THEN {[s |-> s, rules |-> << >>, events |-> << >>]}
            ELSE {PrepareRule(c, rules[k]) : c \in after[k - 1]}
    IN  after[Len(rules)]

SomethingToPoll(c) == \E k \in DOMAIN c.events : c.events[k]

(***************************************************************************)
(* poll: what it returns, and whether it is not the timeout's 0.           *)
(***************************************************************************)
Poll(c) ==
    [k \in DOMAIN c.rules |->
        LET now == Revents(c.rules[k], c.s)
        IN  [events |-> c.events[k], ready |-> c.events[k] /\ now.ready, hup |-> now.hup, err |-> now.err]]

Something(revents) == \E k \in DOMAIN revents : revents[k].ready \/ revents[k].hup \/ revents[k].err

(***************************************************************************)
(* After poll: errors and hang-ups take rules away until the first rule    *)
(* that is ready is served; the rest wait for the next call.  A rule that  *)
(* neither read nor wrote and is still interested makes the call throw.    *)
(***************************************************************************)
HungUp(rule, p) == p.hup /\ ((p.events /\ ~p.ready) \/ rule.direction = "Out")

\* mistake: a hang-up ends a rule at once
BugVisitHangsUp(c, rule, p) ==
    LET kept == [c EXCEPT !.rules = Append(@, rule)]
    IN  IF c.served THEN {kept}
        ELSE IF p.err THEN {[c EXCEPT !.s = Cancel(rule, Error(rule, @))]}
        ELSE IF p.hup THEN {[c EXCEPT !.s = Cancel(rule, @)]}
        ELSE IF ~p.ready THEN {kept}
        ELSE {[kept EXCEPT !.s = o.s, !.served = TRUE,
                           !.threw = ~o.served /\ ~Closed(rule, o.s) /\ Interest(rule, o.s)]
                : o \in Callback(rule, c.s)}

Visit(c, rule, p) ==
    LET kept == [c EXCEPT !.rules = Append(@, rule)]
    IN  IF c.served THEN {kept}
        ELSE IF p.err THEN {[c EXCEPT !.s = Cancel(rule, Error(rule, @))]}
        ELSE IF HungUp(rule, p) THEN {[c EXCEPT !.s = Cancel(rule, @)]}
        ELSE IF ~p.ready THEN {kept}
        ELSE {[kept EXCEPT !.s = o.s, !.served = TRUE,
                           !.threw = ~o.served /\ ~Closed(rule, o.s) /\ Interest(rule, o.s)]
                : o \in Callback(rule, c.s)}

Dispatch(rules, revents, s) ==
    LET after[k \in 0 .. Len(rules)] ==
            IF k = 0 THEN {[s |-> s, rules |-> << >>, served |-> FALSE, threw |-> FALSE]}
            ELSE UNION {Visit(c, rules[k], revents[k]) : c \in after[k - 1]}
    IN  after[Len(rules)]
=============================================================================
