------------------------------- MODULE Codecs -------------------------------
(***************************************************************************)
(* The codecs, one at a time: keys as text, the table of an event's tags,  *)
(* the zero bits of its id, an event as posted, hex prefixes, words, the   *)
(* reports of the routing index, the report of the sensors.                *)
(***************************************************************************)
EXTENDS KeyText, EventCodecs, EventText, FilterText, FullText, Routing, Report

otherVars == <<posted, hextext, textVars, routed, sensors>>

Init == KeyTextInit /\ EventCodecsInit /\ EventTextInit /\ FilterTextInit /\ FullTextInit /\ RoutingInit /\ ReportInit

NoKey == sent = None
NoTag == tags = <<>>
NoId == id = <<>>
NoPost == posted = Nothing
NoHex == hextext = <<>>
NoWord == content = <<>> /\ title = <<>>
NoRoute == routed = {}
NoReport == sensors = <<>>
NoEventYet == NoTag /\ NoId
NoText == NoPost /\ NoHex /\ NoWord /\ NoRoute /\ NoReport

Next ==
  \/ NoEventYet /\ NoText /\ KeyTextNext /\ UNCHANGED <<eventVars, otherVars>>
  \/ NoKey /\ NoId /\ NoText /\ MoreTags /\ UNCHANGED <<keyVars, otherVars>>
  \/ NoKey /\ NoTag /\ NoText /\ MoreDigits /\ UNCHANGED <<keyVars, otherVars>>
  \/ /\ NoKey /\ NoEventYet /\ NoText /\ MorePosts
     /\ UNCHANGED <<keyVars, eventVars, hextext, textVars, routed, sensors>>
  \/ /\ NoKey /\ NoEventYet /\ NoPost /\ NoWord /\ NoRoute /\ NoReport /\ MoreHex
     /\ UNCHANGED <<keyVars, eventVars, posted, textVars, routed, sensors>>
  \/ /\ NoKey /\ NoEventYet /\ NoPost /\ NoHex /\ NoRoute /\ NoReport /\ MoreText
     /\ UNCHANGED <<keyVars, eventVars, posted, hextext, routed, sensors>>
  \/ /\ NoKey /\ NoEventYet /\ NoPost /\ NoHex /\ NoWord /\ NoReport /\ MoreRouted
     /\ UNCHANGED <<keyVars, eventVars, posted, hextext, textVars, sensors>>
  \/ /\ NoKey /\ NoEventYet /\ NoPost /\ NoHex /\ NoWord /\ NoRoute /\ MoreMeasured
     /\ UNCHANGED <<keyVars, eventVars, posted, hextext, textVars, routed>>

codecVars == <<keyVars, eventVars, otherVars>>

Spec == Init /\ [][Next]_codecVars

-----------------------------------------------------------------------------
\* What a codec is given is of the kind it is declared for.
CodecsTypeOK ==
  /\ tags \in Seq([tag : TagNames, content : Contents]) /\ Len(tags) <= MaxTags
  /\ id \in Seq(Digits \cup {NotHex}) /\ Len(id) <= IdLength
  /\ posted # Nothing => posted \in PostedEvents
  /\ hextext \in Seq(HexChars) /\ Len(hextext) <= MaxText
  /\ content \in Seq(Alphabet) /\ title \in Seq(Alphabet)
  /\ routed \subseteq RoutedEvents
=============================================================================
