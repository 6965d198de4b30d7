------------------------------- MODULE Limiter -------------------------------
(***************************************************************************)
(* The per-second request limiter a stored value carries twice, once for   *)
(* reads and once for writes (store.hpp:29-38, 613-643).                   *)
(*                                                                         *)
(* A limiter maps each limit a client has named to the window opened for   *)
(* it: the clock second of the last accepted call and how many calls that  *)
(* second has accepted.  A limit with no entry in the map is NoWindow; an  *)
(* entry always counts at least one call, so the two cannot be confused.   *)
(***************************************************************************)
EXTENDS Naturals

NoWindow == [ts |-> 0, count |-> 0]

NewLimiter(caps) == [cap \in caps |-> NoWindow]

\* Mutant: one call too many passes.
ExhaustedLate(window, cap, t) == window.count > cap /\ window.ts = t

\* The call is refused only when this second's window is used up.
Exhausted(window, cap, t) == window.count = cap /\ window.ts = t

\* An accepted call is counted in the window of the second, or opens it.
Counted(window, t) ==
    IF window # NoWindow /\ window.ts = t
      THEN [window EXCEPT !.count = @ + 1]
      ELSE [ts |-> t, count |-> 1]

\* The limit 0 stands for "no limit": it is never refused and never counted.
Passes(limiter, cap, t) == cap # 0 => ~Exhausted(limiter[cap], cap, t)

IncLimiter(limiter, cap, t) ==
    IF cap = 0 THEN limiter ELSE [limiter EXCEPT ![cap] = Counted(@, t)]
==============================================================================
