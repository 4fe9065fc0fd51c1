------------------------------ MODULE MCRacing ------------------------------
(***************************************************************************)
(* What two workers that race on one key still keep, in two scenes: any    *)
(* records under two ids, with pages, reviews and an operation cut short;  *)
(* and four policies, one of which replaces two others while a fourth      *)
(* replaces one of the two.                                                *)
(***************************************************************************)
EXTENDS MCConcurrentService

CONSTANTS a, b, c, d, e, f

VARIABLE scene

\* Early and Late do not overlap, Wide replaces both, and Last replaces Late
\* from its own first day on, which leaves Late unreadable.
Early == [Policy EXCEPT !.valid_to = 2]
Late  == Submission("official_policy", 80, 3)
Wide  == Submission("official_policy", 90, 2)
Last  == Submission("official_policy", 85, 3)

AllSubmissions == RacingSubmissions \cup {Early, Late, Wide, Last}

RequestsOf ==
  [any     |-> {a, b} \X RacingSubmissions,
   halfway |-> {<<c, Early>>, <<d, Late>>, <<e, Wide>>, <<f, Last>>}]

RacingSym == Permutations({a, b}) \cup Permutations(Workers)

racingVars == <<vars, scene>>

RacingInit == Init /\ scene \in DOMAIN RequestsOf

RacingNext ==
  /\ UNCHANGED scene
  /\ \E w \in Workers :
       \/ Begin(w, RequestsOf[scene], Pages)
       \/ GoOn(w)
       \/ scene = "any" /\ Crash(w)

RacingSpec == RacingInit /\ [][RacingNext]_racingVars

=============================================================================
