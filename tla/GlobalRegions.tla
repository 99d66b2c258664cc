----------------------------- MODULE GlobalRegions -----------------------------
(***************************************************************************)
(* The regions and client sites of the /global page                        *)
(* (web/lib/global-ingress.ts).  Regions are eu-central, us-east and       *)
(* ap-southeast, in the stable order that breaks every tie; the sites      *)
(* Frankfurt, Virginia and Singapore are at home there.                    *)
(***************************************************************************)
EXTENDS Integers, Sequences, FiniteSetsExt, SequencesExt

Regions == 1..3
Sites == 1..3

homeRegion(site) == site

baseRttMs == << <<18, 92, 170>>, <<92, 22, 205>>, <<165, 205, 24>> >>

\* What a stable sort by an ascending key puts first, and the set it ties for first place.
Lowest(S, key(_)) == {r \in S : \A q \in S : key(r) <= key(q)}
Least(S, key(_)) == Min(Lowest(S, key))

\* The two that come first by a descending rank.
TopTwo(S, rank) == {r \in S : Cardinality({q \in S : rank[q] > rank[r]}) < 2}

\* Round-trip times of a group of sites, repeated ones included, to a region.
TotalRtt(sites, r) == FoldSeq(LAMBDA s, sum : sum + baseRttMs[s][r], 0, sites)
WorstRtt(sites, r) == Max({baseRttMs[sites[i]][r] : i \in DOMAIN sites})

\* The loads of the candidates differ by at most one.
Even(S, count(_)) == \A p, q \in S : count(p) <= count(q) + 1

=============================================================================
