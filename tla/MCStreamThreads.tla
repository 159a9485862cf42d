--------------------------- MODULE MCStreamThreads ---------------------------
(***************************************************************************)
(* One input and one output; an echo canceller and a noise suppressor, and *)
(* routes that embed nothing or the canceller.                             *)
(***************************************************************************)
EXTENDS StreamThreads

InsDef == {"i1"}
OutsDef == <<"o1">>
TwoOutsDef == <<"o1", "o2">>
EffectsDef == {"aec", "ns"}
AecDef == {"aec"}
KindsDef == {{}, {"aec"}}
=============================================================================
