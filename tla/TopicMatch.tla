----------------------------- MODULE TopicMatch -----------------------------
(***************************************************************************)
(* Which handler a message is for: isTopicMatched of src/lib/Microgear/    *)
(* MQTTClient/MQTTClient.c and MQTTPacket_equals.  Filters and names are   *)
(* sequences of characters.                                                *)
(***************************************************************************)
EXTENDS Integers, SequencesExt

\* A mutation: the test that a level of the name ends where the filter's does is gone.
MatchAcrossLevels(filter, name) ==
  LET F == Len(filter)
      N == Len(name)
      LevelEnd(n) == CHOOSE m \in n..N : (m = N \/ name[m + 1] = "/")
                                         /\ \A k \in (n + 1)..m : name[k] # "/"
      Matches[f \in 1..(F + 1)] ==
        [n \in 1..(N + 1) |->
           IF f > F \/ n > N THEN f > F /\ n > N
           ELSE IF filter[f] = "#" THEN f = F
           ELSE IF filter[f] = "+" THEN Matches[f + 1][LevelEnd(n) + 1]
           ELSE filter[f] = name[n] /\ Matches[f + 1][n + 1]]
  IN Matches[1][1]

\* The loop, with curf at f and curn at n.  It stops at the end of either string, where
\* the name has a "/" and the filter has not, and at characters that differ.
isTopicMatched(filter, name) ==
  LET F == Len(filter)
      N == Len(name)
      \* '+' goes on behind the level: up to the next separator or the end
      LevelEnd(n) == CHOOSE m \in n..N : (m = N \/ name[m + 1] = "/")
                                         /\ \A k \in (n + 1)..m : name[k] # "/"
      Matches[f \in 1..(F + 1)] ==
        [n \in 1..(N + 1) |->
           IF f > F \/ n > N THEN f > F /\ n > N
           ELSE IF name[n] = "/" /\ filter[f] # "/" THEN FALSE
           ELSE IF filter[f] = "#" THEN f = F
           ELSE IF filter[f] = "+" THEN Matches[f + 1][LevelEnd(n) + 1]
           ELSE filter[f] = name[n] /\ Matches[f + 1][n + 1]]
  IN Matches[1][1]

MQTTPacket_equals(a, b) == Len(a) = Len(b) /\ \A i \in DOMAIN a : a[i] = b[i]

\* deliverMessage's test of one handler.
ForHandler(filter, name) == MQTTPacket_equals(name, filter) \/ isTopicMatched(filter, name)

-----------------------------------------------------------------------------
(* What a filter means, by levels.                                         *)

\* The levels of what begins at each position of s.
LevelsFrom(s) ==
  LET from[i \in 1..(Len(s) + 1)] ==
        IF i > Len(s) THEN << <<>> >>
        ELSE LET rest == from[i + 1] IN
             IF s[i] = "/" THEN << <<>> >> \o rest
             ELSE << <<s[i]>> \o rest[1] >> \o Tail(rest)
  IN from
Levels(s) == LevelsFrom(s)[1]

\* The assumption of isTopicMatched on a filter.
WellFormed(filter) ==
  LET L == Levels(filter) IN
  \A i \in DOMAIN L :
    /\ Contains(L[i], "+") => Len(L[i]) = 1
    /\ Contains(L[i], "#") => Len(L[i]) = 1 /\ i = Len(L)

FilterMatches(filter, name) ==
  LET F == Levels(filter)
      N == Levels(name)
      same(i) == F[i] = <<"+">> \/ F[i] = N[i]
  IN \/ Len(F) = Len(N) /\ \A i \in DOMAIN F : same(i)
     \/ /\ Last(F) = <<"#">> /\ Len(N) >= Len(F) - 1
        /\ \A i \in 1..(Len(F) - 1) : same(i)

\* Where the code says no although the filter means yes: a wildcard has no character
\* to begin with, for its level is empty or there is none.
WildcardOnNothing(filter, name) ==
  LET F == Levels(filter)
      N == Levels(name)
  IN \E i \in DOMAIN F : F[i] \in {<<"+">>, <<"#">>} /\ (i > Len(N) \/ N[i] = <<>>)
=============================================================================
