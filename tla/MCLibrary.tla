------------------------------ MODULE MCLibrary ------------------------------
(* Model values for the runs of Library: the documents of MCConfig, and     *)
(* lines that fit their buffer, but for one in LibraryLongLine.             *)
EXTENDS Library, MCConfig

CONSTANTS t1, t2

TwoThreads == {t1, t2}
FeatureOptions == << <<"Features", "UiScale">>, <<"Features", "BackdropFix">> >>

DataInUse ==
  {Defaults[j].value.data : j \in DOMAIN Defaults}
    \cup UNION {{d.value[n].data : n \in DOMAIN d.value} : d \in Documents}

\* All short, or the name of the real library longer than the rest.
ShortTexts == [data \in DataInUse |-> 1]
LongPath == [ShortTexts EXCEPT !["system32"] = 7]
=============================================================================
