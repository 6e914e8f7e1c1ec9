------------------------------ MODULE MCConfig -------------------------------
(* Documents and defaults, small but of every shape that Config tells      *)
(* apart.                                                                  *)
EXTENDS Config

Str(data) == [type |-> "string", data |-> data]
Bool(data) == [type |-> "bool", data |-> data]
Number(data) == [type |-> "int", data |-> data]
Entry(key, node) == [key |-> key, node |-> node]

Segments == {"XInput", "Path", "Features", "BackdropFix", "UiScale", "hud", "clip", "0"}
\* The long segments: a key of UiScale, "0" and clip fills the buffer exactly.
Widths == [key \in Segments |-> IF key = "clip" THEN 3 ELSE IF key = "hud" THEN 2 ELSE 1]

DefaultOptions ==
  << [path |-> <<"XInput", "Path">>, value |-> Str("system32")],
     [path |-> <<"Features", "BackdropFix">>, value |-> Bool("true")],
     [path |-> <<"Features", "UiScale">>, value |-> Bool("true")],
     [path |-> <<"UiScale", "hud">>, value |-> Str("ShowAll")] >>

FeatureReads ==
  { [path |-> <<"XInput", "Path">>, type |-> "string"],
    [path |-> <<"Features", "BackdropFix">>, type |-> "bool"],
    [path |-> <<"Features", "UiScale">>, type |-> "bool"],
    [path |-> <<"UiScale", "hud">>, type |-> "string"],
    [path |-> <<"UiScale", "clip">>, type |-> "string"] }

V == "value"
T == "table"
A == "array"
N == NoValue

\* [Features] UiScale = enabled; [UiScale] hud = mode, clip = "NoBorder"
Usual(enabled, mode) ==
  [kind |-> <<T, T, V, T, V, V>>,
   children |-> << <<Entry("Features", 2), Entry("UiScale", 4)>>,
                   <<Entry("UiScale", 3)>>, <<>>,
                   <<Entry("hud", 5), Entry("clip", 6)>>, <<>>, <<>> >>,
   value |-> <<N, N, enabled, N, mode, Str("NoBorder")>>]

\* UiScale = ["a", "b"]; XInput = [[1], [2, 3]]
Arrays ==
  [kind |-> <<T, A, V, V, A, A, V, A, V, V>>,
   children |-> << <<Entry("UiScale", 2), Entry("XInput", 5)>>,
                   <<Entry("0", 3), Entry("0", 4)>>, <<>>, <<>>,
                   <<Entry("0", 6), Entry("0", 8)>>,
                   <<Entry("0", 7)>>, <<>>,
                   <<Entry("0", 9), Entry("0", 10)>>, <<>>, <<>> >>,
   value |-> <<N, N, Str("a"), Str("b"), N, N, Number("1"), N, Number("2"), Number("3")>>]

\* [[UiScale]] hud = "a", [[UiScale]] hud = "b", clip = "c"
TableArray ==
  [kind |-> <<T, A, T, V, T, V, V>>,
   children |-> << <<Entry("UiScale", 2)>>,
                   <<Entry("0", 3), Entry("0", 5)>>,
                   <<Entry("hud", 4)>>, <<>>,
                   <<Entry("hud", 6), Entry("clip", 7)>>, <<>>, <<>> >>,
   value |-> <<N, N, N, Str("a"), N, Str("b"), Str("c")>>]

\* Two segments too many, then one, beside values that fit.
Deep ==
  [kind |-> <<T, T, T, T, T, V, V, V, V>>,
   children |-> << <<Entry("Features", 2), Entry("hud", 9)>>,
                   <<Entry("UiScale", 3)>>,
                   <<Entry("XInput", 4), Entry("Path", 8)>>,
                   <<Entry("0", 5), Entry("Path", 7)>>, <<Entry("0", 6)>>,
                   <<>>, <<>>, <<>>, <<>> >>,
   value |-> <<N, N, N, N, N, Str("1"), Str("4"), Str("2"), Str("3")>>]

WellTyped == {Usual(Bool("false"), Str("NoScale")), Arrays, TableArray, Deep}
WithWrongType ==
  WellTyped \cup {Usual(Str("no"), Str("NoScale")), Usual(Bool("true"), Bool("true"))}
=============================================================================
