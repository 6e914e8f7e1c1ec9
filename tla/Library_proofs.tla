--------------------------- MODULE Library_proofs ----------------------------
(***************************************************************************)
(* Proofs about Library: between the first and the last call of DllMain    *)
(* the options are those of Config, and no line is written to a closed log. *)
(***************************************************************************)
EXTENDS Library, Config_proofs

\* The features come when the options are complete, and the log is closed only
\* when DllMain is called for the last time.
LInv ==
  /\ asked \in Nat
  /\ stage \in Stages
  /\ stage \in {"log", "config"} \/ pc \in {"ready", "crashed"}
  /\ stage = "detached" \/ s_handle # "closed"
  /\ LogOpenWhenWritten

-----------------------------------------------------------------------------
\* A feature that asks for its option does what any reader of it does.
LEMMA FeatureReads ==
  ASSUME InitFeature, LInv PROVE Read \/ UNCHANGED vars
<1> DEFINE lookup == [path |-> Features[asked + 1], type |-> "bool"]
<1>1. /\ pc = "ready"
      /\ UNCHANGED <<s_options, set, doc, parser>>
      /\ pc' = IF WrongType(lookup) THEN "crashed" ELSE "ready"
  BY DEF InitFeature, LInv
<1>2. lookup \in Lookups
  <2>1. asked + 1 \in DOMAIN Features
    BY LibraryAssumption DEF LibraryAssumption, InitFeature, LInv
  <2> QED
    BY <2>1, LibraryAssumption DEF LibraryAssumption
<1> HIDE DEF lookup
<1> QED
  BY <1>1, <1>2 DEF Read

\* Every step of the library is one of the options or leaves them alone.
LEMMA LibraryReads == ASSUME LInv, [LibraryNext]_libraryVars PROVE [Next]_vars
<1>1. CASE InitLog \/ FeaturesDone \/ InitDirect3D \/ Exit \/ Detach
  BY <1>1 DEF InitLog, FeaturesDone, InitDirect3D, Exit, Detach
<1>2. CASE InitConfig
  BY <1>2 DEF InitConfig, Next
<1>3. CASE InitFeature
  BY <1>3, FeatureReads DEF Next
<1>4. ASSUME NEW t \in Threads,
             BeginWrite(t) \/ EndWrite(t) \/ ThreadStarts(t) \/ ThreadEnds(t)
      PROVE  [Next]_vars
  BY <1>4 DEF BeginWrite, EndWrite, ThreadStarts, ThreadEnds
<1>5. ASSUME NEW t \in Threads, ReadOption(t) PROVE [Next]_vars
  BY <1>5 DEF ReadOption, Next
<1>6. CASE UNCHANGED libraryVars
  BY <1>6 DEF libraryVars
<1> QED
  BY <1>1, <1>2, <1>3, <1>4, <1>5, <1>6 DEF LibraryNext, Attach

\* Every step keeps the order of DllMain and the log.
LEMMA NextLInv == ASSUME LInv, [LibraryNext]_libraryVars PROVE LInv'
<1> USE DEF LInv, LogOpenWhenWritten, Stages, log
<1>1. CASE InitLog
  BY <1>1 DEF InitLog
<1>2. CASE InitConfig
  BY <1>2 DEF InitConfig, Write, WriteFile
<1>3. CASE InitFeature
  BY <1>3 DEF InitFeature
<1>4. CASE FeaturesDone
  BY <1>4 DEF FeaturesDone, vars
<1>5. CASE InitDirect3D
  BY <1>5 DEF InitDirect3D, Write, WriteFile, vars
<1>6. CASE Exit \/ Detach
  BY <1>6 DEF Exit, Detach, Close, vars
<1>7. ASSUME NEW t \in Threads, BeginWrite(t) \/ ThreadStarts(t) \/ ThreadEnds(t)
      PROVE  LInv'
  BY <1>7 DEF BeginWrite, ThreadStarts, ThreadEnds, vars
<1>8. ASSUME NEW t \in Threads, EndWrite(t) PROVE LInv'
  BY <1>8 DEF EndWrite, WriteFile, vars
<1>9. ASSUME NEW t \in Threads, ReadOption(t) PROVE LInv'
  BY <1>9 DEF ReadOption, Read, library
<1>10. CASE UNCHANGED libraryVars
  BY <1>10 DEF libraryVars, library, vars
<1> QED
  BY <1>1, <1>2, <1>3, <1>4, <1>5, <1>6, <1>7, <1>8, <1>9, <1>10 DEF LibraryNext, Attach

\* The order of DllMain always holds.
LEMMA Order == LibrarySpec => []LInv
<1>1. LibraryInit => LInv
  BY DEF LibraryInit, LInv, Stages, LogOpenWhenWritten
<1>2. ASSUME LInv, [LibraryNext]_libraryVars PROVE LInv'
  BY <1>2, NextLInv
<1> QED
  BY <1>1, <1>2, PTL DEF LibrarySpec

-----------------------------------------------------------------------------
\* No line is written through the handle of a closed log, for any number of
\* threads (util.cpp:28-50, dllmain.cpp:393-424).
THEOREM LogSafe == LibrarySpec => []LogOpenWhenWritten
<1>1. LInv => LogOpenWhenWritten
  BY DEF LInv
<1> QED
  BY <1>1, Order, PTL

\* DllMain and the features use the options as Config says: what holds of the
\* options on their own holds of them in the library.
THEOREM Options == LibrarySpec => Spec
<1>1. LibraryInit => Init
  BY DEF LibraryInit
<1>2. ASSUME LInv, [LibraryNext]_libraryVars PROVE [Next]_vars
  BY <1>2, LibraryReads
<1> QED
  BY <1>1, <1>2, Order, PTL DEF LibrarySpec, Spec

\* In the library, too, a visit never leaves m_path, for documents of any depth.
THEOREM LibraryTyping == LibrarySpec => []TypeOK
  BY Options, Typing, PTL

\* In the library, too, every key fits the buffer of LogConfig.
THEOREM LibraryKeysFit == LibrarySpec => []KeysFitLog
  BY Options, KeysFit, PTL

\* In the library, too, the options are those of the file over the defaults.
THEOREM LibraryAsWritten == LibrarySpec => []OptionsAsWritten
  BY Options, AsWritten, PTL

\* In the library, too, a feature crashes only on an option of another type.
THEOREM LibraryCrashes == LibrarySpec => []CrashNeedsWrongType
  BY Options, Crashes, PTL

-----------------------------------------------------------------------------
(* The features. *)

\* Those that were asked so far are registered if their option says so.
FeatureInv ==
  /\ asked \in 0 .. Len(Features)
  /\ stage \in {"log", "config"} => asked = 0
  /\ stage \notin {"log", "config", "features"} => asked = Len(Features)
  /\ registered = {Features[j] : j \in {i \in 1 .. asked : Enabled(Features[i])}}

\* No step but those of InitFeature asks a feature.
LEMMA OtherFeatures ==
  ASSUME FeatureInv, UNCHANGED <<asked, registered>>, asked = 0 \/ UNCHANGED s_options,
         stage' \in {"log", "config"} => stage \in {"log", "config"},
         stage' \notin {"log", "config", "features"} =>
           asked = Len(Features) \/ stage \notin {"log", "config", "features"}
  PROVE  FeatureInv'
<1>1. \A i \in 1 .. asked : Enabled(Features[i])' <=> Enabled(Features[i])
  <2>1. CASE asked = 0
    BY <2>1
  <2>2. CASE UNCHANGED s_options
    BY <2>2 DEF Enabled
  <2> QED
    BY <2>1, <2>2
<1> QED
  BY <1>1 DEF FeatureInv

\* One more feature.
LEMMA FeatureAsked ==
  ASSUME LInv, FeatureInv, InitFeature PROVE FeatureInv'
<1>1. Features \in Seq(Seq(Keys)) /\ Len(Features) \in Nat
  BY LibraryAssumption DEF LibraryAssumption
<1>2. CASE UNCHANGED <<asked, registered>>
  BY <1>2, OtherFeatures DEF InitFeature
<1>3. CASE ~UNCHANGED <<asked, registered>>
  <2> DEFINE path == Features[asked + 1]
  <2>1. /\ stage = "features" /\ stage' = "features" /\ asked < Len(Features)
        /\ asked' = asked + 1 /\ UNCHANGED s_options
        /\ registered' = registered \cup (IF Enabled(path) THEN {path} ELSE {})
    BY <1>3 DEF InitFeature
  <2>2. asked \in Nat /\ asked' \in 0 .. Len(Features)
    BY <1>1, <2>1 DEF LInv
  <2>3. \A p : Enabled(p)' <=> Enabled(p)
    BY <2>1 DEF Enabled
  <2>4. {i \in 1 .. asked' : Enabled(Features[i])} =
          {i \in 1 .. asked : Enabled(Features[i])}
            \cup (IF Enabled(path) THEN {asked + 1} ELSE {})
    BY <2>1, <2>2
  <2>5. registered' = {Features[j] : j \in {i \in 1 .. asked' : Enabled(Features[i])}}
    <3>1. CASE Enabled(path)
      BY <2>1, <2>4, <3>1 DEF FeatureInv
    <3>2. CASE ~Enabled(path)
      BY <2>1, <2>4, <3>2 DEF FeatureInv
    <3> QED
      BY <3>1, <3>2
  <2> HIDE DEF path
  <2> QED
    BY <2>1, <2>2, <2>3, <2>5 DEF FeatureInv
<1> QED
  BY <1>2, <1>3

\* Every step registers the features that are asked, by their options.
LEMMA NextFeatures ==
  ASSUME LInv, FeatureInv, [LibraryNext]_libraryVars PROVE FeatureInv'
<1>1. Len(Features) \in Nat
  BY LibraryAssumption DEF LibraryAssumption
<1>2. CASE InitLog \/ FeaturesDone \/ InitDirect3D \/ Exit \/ Detach
  BY <1>1, <1>2, OtherFeatures
  DEF InitLog, FeaturesDone, InitDirect3D, Exit, Detach, vars
<1>3. CASE InitConfig
  BY <1>1, <1>3, OtherFeatures DEF InitConfig, FeatureInv
<1>4. CASE InitFeature
  BY <1>4, FeatureAsked
<1>5. ASSUME NEW t \in Threads,
             BeginWrite(t) \/ EndWrite(t) \/ ReadOption(t) \/ ThreadStarts(t) \/ ThreadEnds(t)
      PROVE  FeatureInv'
  BY <1>5, OtherFeatures
  DEF BeginWrite, EndWrite, ReadOption, ThreadStarts, ThreadEnds, Read, library, vars
<1>6. CASE UNCHANGED libraryVars
  BY <1>6, OtherFeatures DEF libraryVars, library, vars
<1> QED
  BY <1>2, <1>3, <1>4, <1>5, <1>6 DEF LibraryNext, Attach

\* The features that run are those for which the file, or the default, has a
\* true option, whatever the document and in whatever order it is visited
\* (dllmain.cpp:153-155, 298-302, 401-410).
THEOREM FeaturesRun == LibrarySpec => []FeaturesAsConfigured
<1>1. LibraryInit => FeatureInv
  BY LibraryAssumption DEF LibraryAssumption, LibraryInit, FeatureInv
<1>2. ASSUME LInv, FeatureInv, OptionsAsWritten PROVE FeaturesAsConfigured
  <2> SUFFICES ASSUME stage = "attached"
               PROVE  registered = {path \in ToSet(Features) : Enabled(path)}
    BY <1>2 DEF LInv, OptionsAsWritten, FeaturesAsConfigured, Enabled
  <2>1. registered = {Features[j] : j \in {i \in 1 .. Len(Features) : Enabled(Features[i])}}
    BY <1>2 DEF FeatureInv
  <2>2. DOMAIN Features = 1 .. Len(Features)
    BY LibraryAssumption DEF LibraryAssumption
  <2> QED
    BY <2>1, <2>2 DEF ToSet
<1> QED
  BY <1>1, <1>2, NextFeatures, Order, LibraryAsWritten, PTL DEF LibrarySpec

-----------------------------------------------------------------------------
(* DllMain comes to an end. *)

Attaching == {"log", "config", "features", "direct3d"}

\* How far the library has come, and what is left to do before it is further.
ConfigPhase(p) ==
  CASE p = "defaults" -> 1 [] p = "load" -> 2 [] p = "visit" -> 3 [] p = "log" -> 4 [] OTHER -> 8

Phase ==
  IF stage = "config" \/ pc = "crashed" THEN ConfigPhase(pc)
  ELSE CASE stage = "log" -> 0 [] stage = "features" -> 5 [] stage = "direct3d" -> 6 [] OTHER -> 7

Left ==
  CASE stage = "config" /\ pc = "defaults" -> Len(Defaults) - set
    [] stage = "config" /\ pc = "visit" -> Work
    [] stage = "features" -> Len(Features) - asked
    [] OTHER -> 0

Nearer ==
  \/ Phase' > Phase
  \/ Phase' = Phase /\ Left \in Nat /\ Left' \in 0 .. Left - 1

\* Every step of DllMain brings the library further or leaves less to do before it
\* is: there is no way to go round and round while the process attaches it.
AttachAdvances == [][(stage \in Attaching) => Nearer]_libraryVars

\* The log is opened before the options are touched, and when the options are ready
\* DllMain goes on.
AttachInv ==
  /\ stage = "log" => pc = "defaults"
  /\ stage = "config" => pc # "ready"

LEMMA NextAttach == ASSUME LInv, AttachInv, [LibraryNext]_libraryVars PROVE AttachInv'
<1>1. CASE InitLog \/ FeaturesDone \/ InitDirect3D \/ Exit \/ Detach
  BY <1>1 DEF InitLog, FeaturesDone, InitDirect3D, Exit, Detach, vars, AttachInv
<1>2. CASE InitConfig
  BY <1>2 DEF InitConfig, AttachInv
<1>3. CASE InitFeature
  BY <1>3 DEF InitFeature, AttachInv
<1>4. ASSUME NEW t \in Threads,
             BeginWrite(t) \/ EndWrite(t) \/ ReadOption(t) \/ ThreadStarts(t) \/ ThreadEnds(t)
      PROVE  AttachInv'
  BY <1>4 DEF BeginWrite, EndWrite, ReadOption, ThreadStarts, ThreadEnds, Read, library, vars, AttachInv
<1>5. CASE UNCHANGED libraryVars
  BY <1>5 DEF libraryVars, library, vars, AttachInv
<1> QED
  BY <1>1, <1>2, <1>3, <1>4, <1>5 DEF LibraryNext, Attach

\* A step of the options brings them further or leaves less to do.
LEMMA ConfigAdvances ==
  ASSUME LInv, AttachInv, IInv, OptionInv, InitConfig, pc # "crashed"
  PROVE  Nearer
<1> USE DEF Nearer
<1>1. stage = "config" /\ stage' = IF pc' = "ready" THEN "features" ELSE "config"
  BY DEF InitConfig
<1>2. Phase = ConfigPhase(pc) /\ (pc' # "ready" => Phase' = ConfigPhase(pc'))
      /\ (pc' = "ready" => Phase' = 5)
  BY <1>1 DEF Phase
<1>3. CASE SetDefault
  <2>1. pc = "defaults" /\ pc' = "defaults" /\ set < Len(Defaults) /\ set' = set + 1
    BY <1>3 DEF SetDefault
  <2>2. set \in Nat /\ Len(Defaults) \in Nat
    BY ConfigAssumption DEF ConfigAssumption, IInv, TypeOK
  <2>3. Left = Len(Defaults) - set /\ Left' = Len(Defaults) - set'
    BY <1>1, <2>1 DEF Left
  <2> QED
    BY <1>2, <2>1, <2>2, <2>3
<1>4. CASE DefaultsDone \/ LoadFails \/ Load \/ LoadEnds \/ LogConfig
  BY <1>2, <1>4 DEF DefaultsDone, LoadFails, Load, LoadEnds, LogConfig, ConfigPhase
<1>5. CASE stack # << >> /\ Visit
  <2>1. pc = "visit" /\ pc' = "visit"
    BY <1>5 DEF Visit, VisitValue, SkipContainer, EnterContainer, Descend, Leave
  <2>2. Work \in Nat /\ Work' \in 0 .. Work - 1
    BY <1>5, DescentShrinks, LeaveShrinks DEF Visit
  <2>3. Left = Work /\ Left' = Work'
    BY <1>1, <2>1 DEF Left
  <2> QED
    BY <1>2, <2>1, <2>2, <2>3
<1> QED
  BY <1>3, <1>4, <1>5 DEF InitConfig, Start

LEMMA StepAdvances ==
  ASSUME LInv, AttachInv, FeatureInv, IInv, OptionInv, LibraryNext, stage \in Attaching
  PROVE  Nearer
<1> USE DEF Nearer
<1>0. pc # "crashed" /\ Attach
  BY DEF LibraryNext, Attaching, Exit, Detach, BeginWrite, EndWrite, ReadOption, ThreadStarts, ThreadEnds
<1>1. CASE InitLog
  BY <1>0, <1>1 DEF InitLog, AttachInv, Phase, ConfigPhase, vars
<1>2. CASE InitConfig
  BY <1>0, <1>2, ConfigAdvances
<1>3. CASE InitFeature
  <2>1. stage = "features" /\ stage' = "features" /\ asked < Len(Features) /\ Phase = 5
    BY <1>0, <1>3 DEF InitFeature, Phase
  <2>2. CASE pc' = "crashed"
    <3>1. Phase' = ConfigPhase(pc')
      BY <2>2 DEF Phase
    <3>2. ConfigPhase("crashed") = 8
      BY DEF ConfigPhase
    <3> QED
      BY <2>1, <2>2, <3>1, <3>2
  <2>3. CASE pc' # "crashed"
    <3>1. asked' = asked + 1
      BY <1>3, <2>3 DEF InitFeature
    <3>2. Phase' = 5 /\ Left = Len(Features) - asked /\ Left' = Len(Features) - asked'
      BY <2>1, <2>3 DEF Phase, Left
    <3>3. asked \in Nat /\ Len(Features) \in Nat
      BY LibraryAssumption DEF LibraryAssumption, LInv
    <3> QED
      BY <2>1, <3>1, <3>2, <3>3
  <2> QED
    BY <2>2, <2>3
<1>4. CASE FeaturesDone \/ InitDirect3D
  BY <1>0, <1>4 DEF FeaturesDone, InitDirect3D, Phase, vars
<1> QED
  BY <1>0, <1>1, <1>2, <1>3, <1>4 DEF Attach

\* In the library, too, a visit comes to an end.
THEOREM LibraryShrinks == LibrarySpec => VisitShrinks
  BY Options, Shrinks, PTL

\* Whatever the file holds, DllMain cannot keep the loader waiting by going in a
\* circle: each of its steps comes nearer to the end. That the thread is scheduled
\* then brings it there (dllmain.cpp:393-412, config.cpp:109-146).
THEOREM Advances == LibrarySpec => AttachAdvances
<1>1. LibraryInit => AttachInv
  BY DEF LibraryInit, Init, AttachInv
<1>2. LibraryInit => FeatureInv
  BY LibraryAssumption DEF LibraryAssumption, LibraryInit, FeatureInv
<1>3. ASSUME LInv, AttachInv, FeatureInv, IInv, OptionInv, [LibraryNext]_libraryVars
      PROVE  [(stage \in Attaching) => Nearer]_libraryVars
  BY <1>3, StepAdvances
<1> QED
  BY <1>1, <1>2, <1>3, NextAttach, NextFeatures, Order, Options, Invariance, Recorded, PTL
  DEF LibrarySpec, AttachAdvances
=============================================================================
