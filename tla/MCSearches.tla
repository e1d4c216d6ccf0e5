----------------------------- MODULE MCSearches ------------------------------
EXTENDS Searches, TLC

Symmetry == Permutations(Pumps)

NoFields == [k \in Keywords \cup {"group", "team_id"} |-> {}]

\* Two actions, three cruds; the third event is one of before groups.
MCDocs ==
    1 :> [NoFields EXCEPT !["action"] = {1}, !["crud"] = {"c"}, !["group"] = {"g"},
                          !["description"] = {"door", "open"}]
 @@ 2 :> [NoFields EXCEPT !["action"] = {2}, !["crud"] = {"u"}, !["group"] = {"g"},
                          !["description"] = {"open"}]
 @@ 3 :> [NoFields EXCEPT !["action"] = {1}, !["crud"] = {"d"}, !["team_id"] = {"g"},
                          !["description"] = {"door"}]

NoQuery == [k \in Keywords |-> {}]

MCAsks ==
    {[query |-> [NoQuery EXCEPT !["crud"] = {{"c"}, {"u"}, {"d"}}], scope |-> {}],
     [query |-> [NoQuery EXCEPT !["crud"] = {{"c"}, {"u"}}, !["description"] = {{"open"}}],
      scope |-> {"g"}]}

=============================================================================
