--------------------------- MODULE MCRevisions ---------------------------
(***************************************************************************)
(* Three revisions of a small content.  The second renames elements, a      *)
(* branch and an ending, merges two elements and makes something else of     *)
(* two more; the third renames them again and merges two more; going back is *)
(* not supported.                                                            *)
(***************************************************************************)
EXTENDS Revisions

MCContents ==
  << [elements |-> {"sten", "ild", "pind", "spyd"}, base |-> {"sten", "ild", "pind"},
      branches |-> "jagt" :> "spyd", endings |-> {"istid"}, supported |-> {},
      elementAliases |-> <<>>, branchAliases |-> <<>>, endingAliases |-> <<>>,
      estranged |-> {}],
     [elements |-> {"sten", "gren", "lanse"}, base |-> {"sten", "gren"},
      branches |-> "rov" :> "lanse", endings |-> {"frost"}, supported |-> {1},
      elementAliases |-> "pind" :> "gren" @@ "spyd" :> "lanse" @@ "ild" :> "sten",
      branchAliases |-> "jagt" :> "rov", endingAliases |-> "istid" :> "frost",
      estranged |-> {Made({Named("sten"), Named("lanse")})}],
     [elements |-> {"flint", "kastespyd"}, base |-> {"flint"},
      branches |-> "togt" :> "kastespyd", endings |-> {"kulde"}, supported |-> {1, 2},
      elementAliases |-> "pind" :> "gren" @@ "spyd" :> "lanse" @@ "lanse" :> "kastespyd"
                         @@ "ild" :> "sten" @@ "gren" :> "flint" @@ "sten" :> "flint",
      branchAliases |-> "jagt" :> "rov" @@ "rov" :> "togt",
      endingAliases |-> "istid" :> "frost" @@ "frost" :> "kulde",
      estranged |-> {}] >>

\* A save without a plan, of a game of the first revision that has ended, and one
\* of a deployment that was taken back, whose profile the browser has dropped.
MCLegacySaves ==
  LET ended == [rev |-> 0, legacy |-> FALSE, discovered |-> {Named("sten"), Named("pind")},
                made |-> <<>>, strange |-> {}, branches |-> {}, ended |-> "istid", turns |-> 1]
  IN {ended, [FreshGame(3) EXCEPT !.turns = 1]}

=============================================================================
