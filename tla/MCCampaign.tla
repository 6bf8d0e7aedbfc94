----------------------------- MODULE MCCampaign -----------------------------
(***************************************************************************)
(* Small instances of Campaign, over those of StagedTurn: a proposal whose *)
(* steps are written out of order, one under the same id whose two steps   *)
(* may not do the same things, and what an editor may make of them.        *)
(***************************************************************************)
EXTENDS Campaign, MCStagedTurn

Takes(from, name) == [from |-> from, name |-> name]
Do(id, inputs, takes, exports, scopes) ==
    [id |-> id, inputs |-> inputs, takes |-> takes, exports |-> exports,
     scopes |-> scopes]
Campaigns(steps) == [id |-> "c1", steps |-> steps]

Report == Campaigns(<<Do("s2", <<"s1">>, {Takes("s1", "f")}, {}, {"read"}),
                      Do("s1", << >>, {}, {"f"}, {"read"})>>)
Survey == Campaigns(<<Do("s1", << >>, {}, {"f"}, {"read"}),
                      Do("s2", << >>, {}, {}, {"write"}),
                      Do("s3", << >>, {}, {}, {"read"})>>)
Cyclic == Campaigns(<<Do("s1", <<"s2">>, {}, {}, {}),
                      Do("s2", <<"s1">>, {}, {}, {})>>)
\* A dependency somebody typed twice.
Doubled == Campaigns(<<Do("s3", <<"s2">>, {Takes("s2", "f")}, {}, {}),
                       Do("s2", <<"s1", "s1">>, {}, {"f"}, {}),
                       Do("s1", << >>, {}, {}, {})>>)
Renamed == [id |-> "c2", steps |-> Report.steps]

TwoProposals == {Report, Survey}
AnEdit == {Report, Cyclic}
OnlyDoubled == {Doubled}
ARename == {Renamed}
NoEdit == {}
=============================================================================
