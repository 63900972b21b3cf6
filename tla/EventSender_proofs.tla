-------------------------- MODULE EventSender_proofs --------------------------
(***************************************************************************)
(* Theorems about EventSender, for every command line, every build and     *)
(* every size of the buffers.                                              *)
(***************************************************************************)
EXTENDS EventSender, SequenceTheorems, TLAPS

-----------------------------------------------------------------------------
(* The table, the handlers and the usage, which are kept in step by hand. *)

\* The arguments are parsed as what the handler reads them as.
Fit(types, reads) ==
    /\ types \in Seq({"INT", "BOOL", "STRING"})
    /\ DOMAIN reads = 1 .. Len(types)
    /\ \A j \in DOMAIN reads : reads[j].as = types[j]

\* The handler puts each argument where the usage says, and in no other's place.
Ordered(usage, reads) ==
    /\ DOMAIN usage = DOMAIN reads
    /\ \A j \in DOMAIN reads :
        /\ reads[j].field = usage[j]
        /\ usage[j] # None
        /\ \A k \in DOMAIN reads : usage[k] = usage[j] => k = j

RowFits(n) == Fit(iarmEventTable[n].types, Handler(iarmEventTable[n].handler).reads)
RowOrdered(n) == Ordered(Usage[n], Handler(iarmEventTable[n].handler).reads)

\* The shapes handlers have.
LEMMA Fits ==
    \A a, b, c, d :
        /\ Fit(<<"INT">>, <<I(a)>>)
        /\ Fit(<<"BOOL">>, <<B(a)>>)
        /\ Fit(<<"STRING">>, <<S(a)>>)
        /\ Fit(<<"INT", "INT">>, <<I(a), I(b)>>)
        /\ Fit(<<"INT", "BOOL">>, <<I(a), B(b)>>)
        /\ Fit(<<"INT", "INT", "BOOL">>, <<I(a), I(b), B(c)>>)
        /\ Fit(<<"INT", "INT", "INT", "INT">>, <<I(a), I(b), I(c), I(d)>>)
<1> TAKE a, b, c, d
<1>1. Fit(<<"INT">>, <<I(a)>>)
  BY DEF Fit, I
<1>2. Fit(<<"BOOL">>, <<B(a)>>)
  BY DEF Fit, B
<1>3. Fit(<<"STRING">>, <<S(a)>>)
  BY DEF Fit, S
<1>4. Fit(<<"INT", "INT">>, <<I(a), I(b)>>)
  BY DEF Fit, I
<1>5. Fit(<<"INT", "BOOL">>, <<I(a), B(b)>>)
  BY DEF Fit, I, B
<1>6. Fit(<<"INT", "INT", "BOOL">>, <<I(a), I(b), B(c)>>)
  BY DEF Fit, I, B
<1>7. Fit(<<"INT", "INT", "INT", "INT">>, <<I(a), I(b), I(c), I(d)>>)
  BY DEF Fit, I
<1>. QED
  BY <1>1, <1>2, <1>3, <1>4, <1>5, <1>6, <1>7

LEMMA OrdersTwo ==
    \A a, b : a # b /\ a # None /\ b # None =>
        /\ Ordered(<<a, b>>, <<I(a), I(b)>>)
        /\ Ordered(<<a, b>>, <<I(a), B(b)>>)
<1> TAKE a, b
<1> HAVE a # b /\ a # None /\ b # None
<1>1. Ordered(<<a, b>>, <<I(a), I(b)>>)
  BY DEF Ordered, I
<1>2. Ordered(<<a, b>>, <<I(a), B(b)>>)
  BY DEF Ordered, I, B
<1>. QED
  BY <1>1, <1>2

LEMMA OrdersMore ==
    \A a, b, c : None \notin {a, b, c} /\ a # b /\ a # c /\ b # c =>
        /\ Ordered(<<a, b, c>>, <<I(a), I(b), B(c)>>)
        /\ \A d : d \notin {None, a, b, c} =>
                Ordered(<<a, b, c, d>>, <<I(a), I(b), I(c), I(d)>>)
<1> TAKE a, b, c
<1> HAVE None \notin {a, b, c} /\ a # b /\ a # c /\ b # c
<1>1. Ordered(<<a, b, c>>, <<I(a), I(b), B(c)>>)
  BY DEF Ordered, I, B
<1>2. \A d : d \notin {None, a, b, c} =>
        Ordered(<<a, b, c, d>>, <<I(a), I(b), I(c), I(d)>>)
  BY DEF Ordered, I
<1>. QED
  BY <1>1, <1>2

LEMMA TableFits == \A n \in DOMAIN iarmEventTable : RowFits(n)
<1> USE DEF RowFits, iarmEventTable, Entry, Handler, CompositeInHandlers, HdmiHandlers,
            AudioHandlers, DisplayHandlers, StatusHandlers
<1>1. RowFits("DSMgr_CompositeInHotPlug")
  BY Fits
<1>2. RowFits("DSMgr_CompositeInSignalStatus")
  BY Fits
<1>3. RowFits("DSMgr_CompositeInStatus")
  BY Fits
<1>4. RowFits("DSMgr_CompositeInVideoModeUpdate")
  BY Fits
<1>5. RowFits("DSMgr_HdmiInVideoModeUpdate")
  BY Fits
<1>6. RowFits("DSMgr_HdmiAllmEvent")
  BY Fits
<1>7. RowFits("DSMgr_HdmiVrrEvent")
  BY Fits
<1>8. RowFits("DSMgr_HdmiInStatus")
  BY Fits
<1>9. RowFits("DSMgr_HdmiInSignalStatus")
  BY Fits
<1>10. RowFits("DSMgr_HdmiInHotPlug")
  BY Fits
<1>11. RowFits("DSMgr_HdmiInAviContentType")
  BY Fits
<1>12. RowFits("DSMgr_AudioOutHotPlug")
  BY Fits
<1>13. RowFits("DSMgr_AudioFormatUpdate")
  BY Fits
<1>14. RowFits("DSMgr_AudioSecondaryLanguageChanged")
  BY Fits
<1>15. RowFits("DSMgr_AudioPrimaryLanguageChanged")
  BY Fits
<1>16. RowFits("DSMgr_AudioFaderControl")
  BY Fits
<1>17. RowFits("DSMgr_AudioMixingChanged")
  BY Fits
<1>18. RowFits("DSMgr_AudioPortState")
  BY Fits
<1>19. RowFits("DSMgr_AudioMode")
  BY Fits
<1>20. RowFits("DSMgr_DisplayFrameRatePreChange")
  BY Fits
<1>21. RowFits("DSMgr_DisplayFrameRatePostChange")
  BY Fits
<1>22. RowFits("DSMgr_AtmosCapsChanged")
  BY Fits
<1>23. RowFits("DSMgr_EventRxSense")
  BY Fits
<1>24. RowFits("DSMgr_EventZoomSettings")
  BY Fits
<1>25. RowFits("DSMgr_HdmiHotPlug")
  BY Fits
<1>26. RowFits("DSMgr_AudioLevelChanged")
  BY Fits
<1>27. RowFits("DSMgr_VideoFormatUpdate")
  BY Fits
<1>28. RowFits("DSMgr_DisplayResolutionPreChange")
  BY Fits
<1>29. RowFits("DSMgr_DisplayResolutionPostChange")
  BY Fits
<1>30. RowFits("DSMgr_HdmiInAvLatency")
  BY Fits
<1>31. RowFits("DSMgr_EventHdcpStatus")
  BY Fits
<1> HIDE DEF RowFits, Entry
<1>. QED
  BY <1>1, <1>2, <1>3, <1>4, <1>5, <1>6, <1>7, <1>8, <1>9, <1>10, <1>11, <1>12, <1>13,
     <1>14, <1>15, <1>16, <1>17, <1>18, <1>19, <1>20, <1>21, <1>22, <1>23, <1>24,
     <1>25, <1>26, <1>27, <1>28, <1>29, <1>30, <1>31

LEMMA UsageOrdered == \A n \in DOMAIN Usage : RowOrdered(n)
<1> USE DEF RowOrdered, Usage, iarmEventTable, Entry, Handler, CompositeInHandlers,
            HdmiHandlers, AudioHandlers, DisplayHandlers, StatusHandlers, None
<1>1. RowOrdered("DSMgr_CompositeInHotPlug")
  BY OrdersTwo, OrdersMore
<1>2. RowOrdered("DSMgr_CompositeInSignalStatus")
  BY OrdersTwo, OrdersMore
<1>3. RowOrdered("DSMgr_CompositeInStatus")
  BY OrdersTwo, OrdersMore
<1>4. RowOrdered("DSMgr_CompositeInVideoModeUpdate")
  BY OrdersTwo, OrdersMore
<1>5. RowOrdered("DSMgr_HdmiAllmEvent")
  BY OrdersTwo, OrdersMore
<1>6. RowOrdered("DSMgr_HdmiInVideoModeUpdate")
  BY OrdersTwo, OrdersMore
<1>7. RowOrdered("DSMgr_HdmiVrrEvent")
  BY OrdersTwo, OrdersMore
<1>8. RowOrdered("DSMgr_HdmiInStatus")
  BY OrdersTwo, OrdersMore
<1>9. RowOrdered("DSMgr_HdmiInSignalStatus")
  BY OrdersTwo, OrdersMore
<1>10. RowOrdered("DSMgr_HdmiInHotPlug")
  BY OrdersTwo, OrdersMore
<1>11. RowOrdered("DSMgr_HdmiInAviContentType")
  BY OrdersTwo, OrdersMore
<1>12. RowOrdered("DSMgr_AudioOutHotPlug")
  BY OrdersTwo, OrdersMore
<1>13. RowOrdered("DSMgr_AtmosCapsChanged")
  BY OrdersTwo, OrdersMore
<1>14. RowOrdered("DSMgr_DisplayResolutionPreChange")
  BY OrdersTwo, OrdersMore
<1>15. RowOrdered("DSMgr_DisplayResolutionPostChange")
  BY OrdersTwo, OrdersMore
<1>16. RowOrdered("DSMgr_HdmiInAvLatency")
  BY OrdersTwo, OrdersMore
<1> HIDE DEF RowOrdered, iarmEventTable, Entry
<1>. QED
  BY <1>1, <1>2, <1>3, <1>4, <1>5, <1>6, <1>7, <1>8, <1>9, <1>10, <1>11, <1>12, <1>13,
     <1>14, <1>15, <1>16

-----------------------------------------------------------------------------
(* Types, and the room there is in the buffers. *)

\* Nothing has been decided at the start, and nothing is sent before "send" is left.
EarlyInv ==
    /\ main = "start" => route = None /\ parsed = <<>> /\ payload = NoText /\ said = None
    /\ main \in {"start", "open", "send"} => sent = <<>>

LEMMA ArgsType ==
    ASSUME argv \in CommandLines
    PROVE  args \in Seq(Words) /\ Len(args) \in Nat
BY CommandLinesAssumption DEF args

LEMMA GivenType ==
    ASSUME NEW w \in Words
    PROVE  Given(w) \in Text
BY WordsAssumption DEF Given, Text

LEMMA JoinedType ==
    ASSUME NEW t \in Text, NEW v \in Text
    PROVE  /\ Joined(t, v) \in Text
           /\ Joined(t, v).pieces = t.pieces + v.pieces
BY DEF Joined, Text

LEMMA CopyType ==
    ASSUME NEW text \in Text, NEW n \in Nat, NEW copy \in Copies(text, n)
    PROVE  copy \in Text /\ copy.len <= n
<1>1. CASE text.len <= n
  BY <1>1 DEF Copies
<1>2. CASE ~(text.len <= n)
  BY <1>2 DEF Copies, Text
<1>. QED
  BY <1>1, <1>2

LEMMA AbbreviatedType ==
    ASSUME NEW text \in Text, NEW copy \in Abbreviated(text)
    PROVE  copy \in Text /\ copy.len <= MaxLen
<1>1. text.pieces \in Nat /\ MaxLen - 1 \in Nat /\ MaxLen - 1 <= MaxLen
  BY SizesAssumption DEF Text
<1>2. PICK p \in 1 .. text.pieces + 1 : copy = [len |-> MaxLen - 1, pieces |-> p, json |-> TRUE]
  BY DEF Abbreviated
<1>3. p \in Nat
  BY <1>1, <1>2
<1>. QED
  BY <1>1, <1>2, <1>3 DEF Text

\* The steps that look only at the payload.
LEMMA PayloadType ==
    ASSUME TypeOK, StartPayload \/ StartUSBMount \/ StartUSBDetected \/ StartAppIds
    PROVE  payload' \in Text /\ payload'.len <= Room
<1>1. args \in Seq(Words)
  BY ArgsType DEF TypeOK
<1>2. MaxLen \in Nat /\ LongLen \in Nat /\ MaxStray \in Nat /\ ShortSize \in Nat
  BY SizesAssumption
<1>3. CASE StartPayload
  <2>1. Len(args) = 2
    BY <1>3 DEF StartPayload
  <2>2. Given(args[1]) \in Text /\ Given(args[2]) \in Text
    <3>1. args[1] \in Words /\ args[2] \in Words
      BY <1>1, <2>1
    <3>. QED
      BY <3>1, GivenType
  <2> DEFINE text == IF name = "PeripheralUpgradeEvent"
                     THEN Joined(Given(args[1]), Given(args[2]))
                     ELSE Given(args[2])
  <2>3. PICK copy \in Copies(text, MaxLen) : payload' \in Abbreviated(copy) \cup {copy}
    BY <1>3 DEF StartPayload
  <2>6. text \in Text
    BY <2>2, JoinedType
  <2> HIDE DEF text
  <2>4. copy \in Text /\ copy.len <= MaxLen
    BY <1>2, <2>3, <2>6, CopyType
  <2>5. payload' \in Text /\ payload'.len <= MaxLen
    BY <2>3, <2>4, AbbreviatedType
  <2>. QED
    BY <2>1, <2>5 DEF Room
<1>4. CASE StartUSBMount
  <2>1. Len(args) = 3
    BY <1>4 DEF StartUSBMount
  <2>2. Given(args[1]) \in Text /\ Given(args[2]) \in Text /\ Given(args[3]) \in Text
    BY <1>1, <2>1, GivenType
  <2>3. Joined(Joined(Given(args[1]), Given(args[2])), Given(args[3])) \in Text
    BY <2>2, JoinedType
  <2>4. payload' \in Copies(Joined(Joined(Given(args[1]), Given(args[2])), Given(args[3])),
                            LongLen)
    BY <1>4 DEF StartUSBMount
  <2>5. payload' \in Text /\ payload'.len <= LongLen
    BY <1>2, <2>3, <2>4, CopyType
  <2>. QED
    BY <2>1, <2>5 DEF Room
<1>5. CASE StartUSBDetected
  <2>1. Len(args) = 4 /\ Named("usbdetected")
    BY <1>5 DEF StartUSBDetected
  <2>2. /\ Given(args[1]) \in Text /\ Given(args[2]) \in Text
        /\ Given(args[3]) \in Text /\ Given(args[4]) \in Text
    <3>1. /\ args[1] \in Words /\ args[2] \in Words
          /\ args[3] \in Words /\ args[4] \in Words
      BY <1>1, <2>1
    <3>. QED
      BY <3>1, GivenType
  <2>3. Joined(Joined(Joined(Given(args[1]), Given(args[2])), Given(args[3])),
               Given(args[4])) \in Text
    BY <2>2, JoinedType
  <2>4. payload' \in Copies(Joined(Joined(Joined(Given(args[1]), Given(args[2])),
                                          Given(args[3])), Given(args[4])),
                            LongLen)
    BY <1>5 DEF StartUSBDetected
  <2>5. payload' \in Text /\ payload'.len <= LongLen
    BY <1>2, <2>3, <2>4, CopyType
  <2>. QED
    BY <2>1, <2>5 DEF Room
<1>6. CASE StartAppIds
  <2>1. Len(args) = 4 /\ ~Named("usbdetected") /\ payload' \in Strays
    BY <1>6 DEF StartAppIds
  <2>2. payload' \in Text /\ payload'.len <= AppIdsSize + MaxStray
    BY <1>2, <2>1 DEF Strays, AppIdsSize, Text
  <2>. QED
    BY <2>1, <2>2 DEF Room
<1>. QED
  BY <1>3, <1>4, <1>5, <1>6

\* handleIARMEvents fills in one argument for each type of the table's entry.
LEMMA ParsedType ==
    ASSUME argv \in CommandLines, name \in DOMAIN iarmEventTable,
           Acceptable(iarmEventTable[name])
    PROVE  [j \in DOMAIN args |-> [type |-> iarmEventTable[name].types[j], word |-> args[j]]]
                \in Seq([type : {"INT", "BOOL", "STRING"}, word : Words])
<1> DEFINE types == iarmEventTable[name].types
<1>1. types \in Seq({"INT", "BOOL", "STRING"})
  BY TableFits DEF RowFits, Fit
<1>2. args \in Seq(Words) /\ Len(args) = Len(types) /\ DOMAIN args = 1 .. Len(args)
  BY ArgsType DEF Acceptable
<1> HIDE DEF types
<1>3. \A j \in 1 .. Len(args) :
        [type |-> types[j], word |-> args[j]]
            \in [type : {"INT", "BOOL", "STRING"}, word : Words]
  BY <1>1, <1>2
<1>4. [j \in DOMAIN args |-> [type |-> types[j], word |-> args[j]]]
        \in [1 .. Len(args) -> [type : {"INT", "BOOL", "STRING"}, word : Words]]
  BY <1>2, <1>3
<1>5. Len(args) \in Nat
  BY <1>2
<1>. QED
  BY <1>4, <1>5 DEF types

\* What main decides before it takes to the bus.
LEMMA StartType ==
    ASSUME TypeOK, EarlyInv,
           \/ StartUsage \/ StartStatus \/ StartCustom \/ StartDSMgr \/ StartDSMgrUnknown
           \/ StartPayload \/ StartUSBMount \/ StartUSBDetected \/ StartAppIds
    PROVE  TypeOK' /\ EarlyInv'
<1>1. main = "start" /\ UNCHANGED <<build, argv, bus, sent>>
  BY DEF StartUsage, StartStatus, StartCustom, StartDSMgr, StartDSMgrUnknown, StartPayload,
         StartUSBMount, StartUSBDetected, StartAppIds, Refuse, Use
<1>2. sent = <<>> /\ args' = args /\ Room' = Room /\ argv \in CommandLines
  BY <1>1 DEF EarlyInv, args, name, Named, Room, TypeOK
<1>3. CASE \/ StartUsage \/ StartDSMgrUnknown
           \/ StartDSMgr /\ \E complaint \in {"arguments", "argument"} : Refuse(complaint)
  <2>1. \E complaint \in {"usage", "unknown", "arguments", "argument"} : Refuse(complaint)
    BY <1>3 DEF StartUsage, StartDSMgrUnknown
  <2>2. /\ main' = "done" /\ said' \in {"usage", "unknown", "arguments", "argument"}
        /\ UNCHANGED <<route, parsed, payload>>
    BY <2>1 DEF Refuse
  <2>. QED
    BY <1>1, <1>2, <2>2 DEF TypeOK, EarlyInv
<1>4. CASE StartStatus \/ StartCustom
  <2>1. main' = "open" /\ route' \in {"status", "custom"} /\ UNCHANGED <<parsed, payload, said>>
    BY <1>4 DEF StartStatus, StartCustom, Use
  <2>. QED
    BY <1>1, <1>2, <2>1 DEF TypeOK, EarlyInv
<1>5. CASE StartDSMgr /\ Use("dsmgr")
  <2>1. /\ main' = "open" /\ route' = "dsmgr" /\ UNCHANGED <<payload, said>>
        /\ name \in DOMAIN iarmEventTable /\ Acceptable(iarmEventTable[name])
        /\ parsed' = [j \in DOMAIN args |->
                        [type |-> iarmEventTable[name].types[j], word |-> args[j]]]
    BY <1>5 DEF StartDSMgr, Use, Refuse
  <2>2. parsed' \in Seq([type : {"INT", "BOOL", "STRING"}, word : Words])
    BY <1>2, <2>1, ParsedType
  <2>. QED
    BY <1>1, <1>2, <2>1, <2>2 DEF TypeOK, EarlyInv
<1>6. CASE StartPayload \/ StartUSBMount \/ StartUSBDetected \/ StartAppIds
  <2>1. main' = "open" /\ route' = "payload" /\ UNCHANGED <<parsed, said>>
    BY <1>6 DEF StartPayload, StartUSBMount, StartUSBDetected, StartAppIds, Use
  <2>2. payload' \in Text /\ payload'.len <= Room
    BY <1>6, PayloadType
  <2>. QED
    BY <1>1, <1>2, <2>1, <2>2 DEF TypeOK, EarlyInv
<1>7. StartDSMgr => \/ Use("dsmgr")
                    \/ \E complaint \in {"arguments", "argument"} : Refuse(complaint)
  BY DEF StartDSMgr
<1>. QED
  BY <1>3, <1>4, <1>5, <1>6, <1>7

\* What is sent is the first thing sent.
LEMMA SendType ==
    ASSUME TypeOK, EarlyInv,
           SendDSMgr \/ SendCustom \/ SendStatus \/ SendMaintenance \/ SendPayload
    PROVE  TypeOK' /\ EarlyInv'
<1>1. /\ main = "send" /\ main' \in {"close", "done"}
      /\ UNCHANGED <<build, argv, route, parsed, payload>>
  BY DEF SendDSMgr, SendCustom, SendStatus, SendMaintenance, SendPayload, Sending
<1>2. sent = <<>> /\ args' = args /\ Room' = Room
  BY <1>1 DEF EarlyInv, args, name, Named, Room
<1>3. bus' \in BOOLEAN /\ said' \in {said, "no match", "failure"}
  BY DEF SendDSMgr, SendCustom, SendStatus, SendMaintenance, SendPayload, Reported, TypeOK
<1>4. NoText \in Text
  BY DEF NoText, Text
<1>5. \A id, text, fields : Event(id, text, fields).text = text
  BY DEF Event
<1>6. sent' = sent \/ \E event : sent' = Append(sent, event) /\ event.text \in Text
  <2>1. CASE SendDSMgr
    <3> DEFINE h == Handler(iarmEventTable[name].handler)
               event == Event(h.event, NoText,
                              [f \in {h.reads[j].field : j \in DOMAIN h.reads} \ {None} |->
                                 args[CHOOSE j \in DOMAIN h.reads : h.reads[j].field = f]])
    <3>1. sent' = Append(sent, event) \/ sent' = sent
      BY <2>1 DEF SendDSMgr, Broadcast
    <3>2. event.text \in Text
      BY <1>4, <1>5
    <3>. QED
      BY <3>1, <3>2
  <2>2. CASE SendCustom
    BY <1>4, <1>5, <2>2 DEF SendCustom, Broadcast
  <2>3. CASE SendStatus
    <3>1. sent' = sent \/ sent' = Append(sent, Event(StatusEvent, NoText, <<>>))
      BY <2>3 DEF SendStatus, Broadcast
    <3>. QED
      BY <1>4, <1>5, <3>1
  <2>4. CASE SendMaintenance
    BY <1>4, <1>5, <2>4 DEF SendMaintenance, Broadcast
  <2>5. CASE SendPayload
    <3>1. DataSize - 1 \in Nat
      BY SizesAssumption
    <3>2. \A text \in Copies(payload, DataSize - 1) : text \in Text
      BY <3>1, CopyType DEF TypeOK
    <3>3. CASE name = "IntrusionEvent"
      <4>1. PICK text \in Copies(payload, DataSize - 1) :
              \/ sent' = Append(sent, Event("INTRUSION", text, <<>>))
              \/ sent' = sent
        BY <2>5, <3>3 DEF SendPayload, Broadcast
      <4>. QED
        BY <1>5, <3>2, <4>1
    <3>4. CASE name # "IntrusionEvent"
      <4>1. \/ sent' = Append(sent, Event(PayloadIf[name].event, NoText, <<>>))
            \/ sent' = sent
        BY <2>5, <3>4 DEF SendPayload, Broadcast
      <4>. QED
        BY <1>4, <1>5, <4>1
    <3>. QED
      BY <3>3, <3>4
  <2>. QED
    BY <2>1, <2>2, <2>3, <2>4, <2>5
<1>7. \A k \in DOMAIN sent' : sent'[k].text \in Text
  <2>1. CASE sent' = sent
    BY <2>1 DEF TypeOK
  <2>2. CASE \E event : sent' = Append(sent, event) /\ event.text \in Text
    <3>1. PICK event : sent' = Append(<<>>, event) /\ event.text \in Text
      BY <1>2, <2>2
    <3>2. sent' = <<event>>
      BY <3>1
    <3>. QED
      BY <3>1, <3>2
  <2>. QED
    BY <1>6, <2>1, <2>2
<1>. QED
  BY <1>1, <1>2, <1>3, <1>7 DEF TypeOK, EarlyInv

LEMMA TypeInvariant == Spec => [](TypeOK /\ EarlyInv)
<1>1. Init => TypeOK /\ EarlyInv
  <2> SUFFICES ASSUME Init PROVE TypeOK /\ EarlyInv
    OBVIOUS
  <2>1. payload \in Text /\ payload.len <= Room
    BY SizesAssumption DEF Init, Text, NoText, Room, AppIdsSize
  <2>2. parsed \in Seq([type : {"INT", "BOOL", "STRING"}, word : Words])
    BY EmptySeq DEF Init
  <2>3. bus \in BOOLEAN
    BY Zenon DEF Init
  <2>. QED
    BY <2>1, <2>2, <2>3 DEF Init, TypeOK, EarlyInv
<1>2. TypeOK /\ EarlyInv /\ [Next]_vars => TypeOK' /\ EarlyInv'
  <2> SUFFICES ASSUME TypeOK, EarlyInv, [Next]_vars PROVE TypeOK' /\ EarlyInv'
    OBVIOUS
  <2>1. CASE OpenBus \/ PayloadLacksPiece \/ PayloadUnknown \/ CloseBus
    <3>1. /\ main # "start" /\ main' \in {"send", "close", "done", "killed"}
          /\ main' = "send" => main = "open"
          /\ UNCHANGED <<build, argv, route, parsed, payload, sent>>
      BY <2>1 DEF OpenBus, PayloadLacksPiece, PayloadUnknown, CloseBus, Sending
    <3>2. bus' \in BOOLEAN /\ said' \in {said, "no match"}
      BY <2>1 DEF OpenBus, PayloadLacksPiece, PayloadUnknown, CloseBus, TypeOK
    <3>. QED
      BY <3>1, <3>2 DEF TypeOK, EarlyInv, Room, Named, name, args
  <2>2. CASE UNCHANGED vars
    BY <2>2 DEF vars, TypeOK, EarlyInv, Room, Named, name, args
  <2>. QED
    BY <2>1, <2>2, StartType, SendType DEF Next
<1>. QED
  BY <1>1, <1>2, PTL DEF Spec

(* Types, and no text is longer than its buffer (268-371). *)
THEOREM TypeCorrect == Spec => []TypeOK
<1>. QED
  BY TypeInvariant, PTL

-----------------------------------------------------------------------------
(* The bus, and what is said when nothing is sent. *)
BusInv ==
    /\ main \in {"start", "open", "done", "killed"} => bus = FALSE
    /\ main \in {"send", "close"} => bus = TRUE

\* The three sends whose result is not looked at.
Unlooked ==
    /\ route = "payload"
    /\ name \in {"EISSAppIdEvent", "PeripheralUpgradeEvent", "MaintenanceMGR"}
    /\ name \in PayloadEvents

SilentInv == main \in {"close", "done"} /\ sent = <<>> /\ said = None => Unlooked

(* The events StatusEvents leaves out are those nothing matches: the last if
   compiled, whose else complains, is among those that send. *)
LEMMA StatusSaid ==
    ASSUME EarlyInv, SendStatus
    PROVE  sent' = <<>> => said' # None
<1> SUFFICES ASSUME sent' = <<>> PROVE said' # None
  OBVIOUS
<1>1. sent = <<>> /\ Reported = "failure"
  BY DEF SendStatus, Sending, EarlyInv, Reported
<1>. QED
  BY <1>1 DEF SendStatus, None

\* The other functions that look at the result of a send say when it failed.
LEMMA OthersSaid ==
    ASSUME EarlyInv, SendDSMgr \/ SendCustom \/ SendMaintenance
    PROVE  sent' = <<>> => said' # None
<1> SUFFICES ASSUME sent' = <<>> PROVE said' # None
  OBVIOUS
<1>1. sent = <<>> /\ said' = Reported
  BY DEF SendDSMgr, SendCustom, SendMaintenance, Sending, EarlyInv
<1>. QED
  BY <1>1 DEF Reported, None

\* Of the events with a payload, only three do not look at it.
LEMMA PayloadLooks ==
    \A n \in DOMAIN PayloadIf :
        \/ PayloadIf[n].looks
        \/ n \in {"EISSAppIdEvent", "PeripheralUpgradeEvent", "MaintenanceMGR"}
BY DEF PayloadIf

LEMMA PayloadSaid ==
    ASSUME EarlyInv, SendPayload
    PROVE  sent' = <<>> => said' # None \/ Unlooked'
<1> SUFFICES ASSUME sent' = <<>>, ~Unlooked' PROVE said' # None
  OBVIOUS
<1>1. /\ sent = <<>> /\ route' = "payload" /\ name \in PayloadEvents
      /\ build' = build /\ argv' = argv
      /\ said' = IF PayloadIf[name].looks THEN Reported ELSE said
  BY DEF SendPayload, Sending, EarlyInv
<1>2. name' = name /\ PayloadEvents' = PayloadEvents
  BY <1>1 DEF name, PayloadEvents
<1>3. PayloadIf[name].looks
  BY <1>1, <1>2, PayloadLooks DEF PayloadEvents, Unlooked
<1>. QED
  BY <1>1, <1>3 DEF Reported, None

LEMMA SilentInvariant == Spec => []SilentInv
<1>1. Init => SilentInv
  BY DEF Init, SilentInv
<1>2. EarlyInv /\ SilentInv /\ [Next]_vars => SilentInv'
  <2> SUFFICES ASSUME EarlyInv, SilentInv, [Next]_vars PROVE SilentInv'
    OBVIOUS
  <2>1. CASE StartUsage \/ StartDSMgrUnknown
    BY <2>1 DEF StartUsage, StartDSMgrUnknown, Refuse, SilentInv, None
  <2>2. CASE StartDSMgr
    <3>1. Use("dsmgr") \/ \E complaint \in {"arguments", "argument"} : Refuse(complaint)
      BY <2>2 DEF StartDSMgr
    <3>. QED
      BY <3>1 DEF Use, Refuse, SilentInv, None
  <2>3. CASE StartStatus \/ StartCustom \/ StartPayload \/ StartUSBMount \/ StartUSBDetected
                \/ StartAppIds
    <3>1. main' = "open"
      BY <2>3 DEF StartStatus, StartCustom, StartPayload, StartUSBMount, StartUSBDetected,
                  StartAppIds, Use
    <3>. QED
      BY <3>1 DEF SilentInv
  <2>4. CASE SendDSMgr \/ SendCustom \/ SendMaintenance
    BY <2>4, OthersSaid DEF SilentInv
  <2>5. CASE SendStatus
    BY <2>5, StatusSaid DEF SilentInv
  <2>6. CASE SendPayload
    BY <2>6, PayloadSaid DEF SilentInv
  <2>7. CASE OpenBus \/ PayloadLacksPiece \/ PayloadUnknown
    BY <2>7 DEF OpenBus, PayloadLacksPiece, PayloadUnknown, SilentInv, None
  <2>8. CASE CloseBus \/ UNCHANGED vars
    <3>1. /\ UNCHANGED <<build, argv, route, sent, said>>
          /\ main' \in {"close", "done"} => main \in {"close", "done"}
      BY <2>8 DEF CloseBus, vars
    <3>2. Unlooked' = Unlooked
      BY <3>1 DEF Unlooked, name, PayloadEvents
    <3>. QED
      BY <3>1, <3>2 DEF SilentInv
  <2>. QED
    BY <2>1, <2>2, <2>3, <2>4, <2>5, <2>6, <2>7, <2>8 DEF Next
<1>. QED
  BY <1>1, <1>2, TypeInvariant, PTL DEF Spec

(* Whatever the command line, the build and the bus did, an event is sent or it is said
   why not, but for the three sends whose result is not looked at (532, 547, 582). *)
THEOREM NoSilence == Spec => []NothingUnsaid
<1>1. SilentInv => NothingUnsaid
  BY DEF SilentInv, Unlooked, NothingUnsaid
<1>. QED
  BY <1>1, SilentInvariant, PTL

LEMMA BusInvariant == Spec => []BusInv
<1>1. Init => BusInv
  BY DEF Init, BusInv
<1>2. BusInv /\ [Next]_vars => BusInv'
  <2> SUFFICES ASSUME BusInv, [Next]_vars PROVE BusInv'
    OBVIOUS
  <2>1. CASE \/ StartUsage \/ StartStatus \/ StartCustom \/ StartDSMgr \/ StartDSMgrUnknown
             \/ StartPayload \/ StartUSBMount \/ StartUSBDetected \/ StartAppIds
    <3>1. main = "start" /\ main' \in {"open", "done"} /\ bus' = bus
      BY <2>1 DEF StartUsage, StartStatus, StartCustom, StartDSMgr, StartDSMgrUnknown,
                  StartPayload, StartUSBMount, StartUSBDetected, StartAppIds, Refuse, Use
    <3>. QED
      BY <3>1 DEF BusInv
  <2>2. CASE SendDSMgr \/ SendCustom \/ SendStatus \/ SendPayload \/ PayloadUnknown
    BY <2>2 DEF SendDSMgr, SendCustom, SendStatus, SendPayload, PayloadUnknown, Sending, BusInv
  <2>3. CASE OpenBus \/ SendMaintenance \/ PayloadLacksPiece \/ CloseBus
    BY <2>3 DEF OpenBus, SendMaintenance, PayloadLacksPiece, CloseBus, BusInv
  <2>4. CASE UNCHANGED vars
    BY <2>4 DEF vars, BusInv
  <2>. QED
    BY <2>1, <2>2, <2>3, <2>4 DEF Next
<1>. QED
  BY <1>1, <1>2, PTL DEF Spec

(* The bus is let go on every path that returns, and held while something is sent
   (373-674, 1399-1404). *)
THEOREM BusAlwaysReleased == Spec => []BusReleased
<1>1. BusInv => BusReleased
  BY DEF BusInv, BusReleased
<1>. QED
  BY <1>1, BusInvariant, PTL

-----------------------------------------------------------------------------
(* The DSMgr_ events: from the table to the handler and the fields of the event. *)
Reads == Handler(iarmEventTable[name].handler).reads

HandlerFields ==
    [f \in {Reads[j].field : j \in DOMAIN Reads} \ {None} |->
        args[CHOOSE j \in DOMAIN Reads : Reads[j].field = f]]

(* What handleIARMEvents has parsed and what its handler has made of it. *)
DSMgrInv ==
    route = "dsmgr" =>
        /\ main # "start"
        /\ name \in DOMAIN iarmEventTable
        /\ Len(args) = Len(iarmEventTable[name].types)
        /\ parsed = [j \in DOMAIN args |->
                        [type |-> iarmEventTable[name].types[j], word |-> args[j]]]
        /\ \A k \in DOMAIN sent : sent[k].fields = HandlerFields

LEMMA DSMgrInvariant == Spec => []DSMgrInv
<1>1. Init => DSMgrInv
  BY DEF Init, DSMgrInv, None
<1>2. EarlyInv /\ DSMgrInv /\ [Next]_vars => DSMgrInv'
  <2> SUFFICES ASSUME EarlyInv, DSMgrInv, [Next]_vars PROVE DSMgrInv'
    OBVIOUS
  <2>1. CASE StartUsage \/ StartDSMgrUnknown
    <3>1. main = "start" /\ route' = route
      BY <2>1 DEF StartUsage, StartDSMgrUnknown, Refuse
    <3>. QED
      BY <3>1 DEF EarlyInv, DSMgrInv, None
  <2>2. CASE StartDSMgr
    <3>1. CASE Use("dsmgr")
      <4>1. /\ main' = "open" /\ argv' = argv /\ sent' = <<>>
            /\ name \in DOMAIN iarmEventTable
            /\ Len(args) = Len(iarmEventTable[name].types)
            /\ parsed' = [j \in DOMAIN args |->
                            [type |-> iarmEventTable[name].types[j], word |-> args[j]]]
        BY <2>2, <3>1 DEF StartDSMgr, Use, Refuse, Acceptable, EarlyInv
      <4>2. name' = name /\ args' = args
        BY <4>1 DEF name, args
      <4>. QED
        BY <4>1, <4>2 DEF DSMgrInv
    <3>2. CASE ~Use("dsmgr")
      <4>1. main = "start" /\ route' = route
        BY <2>2, <3>2 DEF StartDSMgr, Refuse
      <4>. QED
        BY <4>1 DEF EarlyInv, DSMgrInv, None
    <3>. QED
      BY <3>1, <3>2
  <2>3. CASE StartStatus \/ StartCustom \/ StartPayload \/ StartUSBMount \/ StartUSBDetected
                \/ StartAppIds
    <3>1. route' \in {"status", "custom", "payload"}
      BY <2>3 DEF StartStatus, StartCustom, StartPayload, StartUSBMount, StartUSBDetected,
                  StartAppIds, Use
    <3>. QED
      BY <3>1 DEF DSMgrInv
  <2>4. CASE SendDSMgr
    <3>1. /\ main = "send" /\ main' = "close" /\ argv' = argv /\ parsed' = parsed
          /\ route = "dsmgr"
      BY <2>4 DEF SendDSMgr, Sending
    <3>2. name' = name /\ args' = args /\ HandlerFields' = HandlerFields
      BY <3>1 DEF name, args, HandlerFields, Reads
    <3>3. PICK event : Broadcast(event) /\ event.fields = HandlerFields
      <4> DEFINE h == Handler(iarmEventTable[name].handler)
                 event == Event(h.event, NoText,
                                [f \in {h.reads[j].field : j \in DOMAIN h.reads} \ {None} |->
                                   args[CHOOSE j \in DOMAIN h.reads : h.reads[j].field = f]])
      <4>1. Broadcast(event)
        BY <2>4 DEF SendDSMgr
      <4>2. event.fields = HandlerFields
        BY DEF Event, HandlerFields, Reads
      <4>. QED
        BY <4>1, <4>2
    <3>4. sent' = <<event>> \/ sent' = <<>>
      BY <3>1, <3>3 DEF EarlyInv, Broadcast
    <3>5. \A k \in DOMAIN sent' : sent'[k].fields = HandlerFields'
      BY <3>2, <3>3, <3>4
    <3>. QED
      BY <3>1, <3>2, <3>5 DEF DSMgrInv
  <2>5. CASE SendCustom \/ SendStatus \/ SendMaintenance \/ SendPayload \/ PayloadLacksPiece
                \/ PayloadUnknown
    <3>1. route' \in {"status", "custom", "payload"}
      BY <2>5 DEF SendCustom, SendStatus, SendMaintenance, SendPayload, PayloadLacksPiece,
                  PayloadUnknown, Sending
    <3>. QED
      BY <3>1 DEF DSMgrInv
  <2>6. CASE OpenBus \/ CloseBus \/ UNCHANGED vars
    <3>1. /\ UNCHANGED <<argv, route, parsed, sent>>
          /\ main' = main \/ main' # "start"
      BY <2>6 DEF OpenBus, CloseBus, vars
    <3>2. name' = name /\ args' = args /\ HandlerFields' = HandlerFields
      BY <3>1 DEF name, args, HandlerFields, Reads
    <3>. QED
      BY <3>1, <3>2 DEF DSMgrInv
  <2>. QED
    BY <2>1, <2>2, <2>3, <2>4, <2>5, <2>6 DEF Next
<1>. QED
  BY <1>1, <1>2, TypeInvariant, PTL DEF Spec

(* All 31 handlers read as many arguments as their entry of the table has parsed,
   each as the type it was parsed as (150-182, 701-1447). *)
THEOREM HandlersReadWhatIsParsed == Spec => []ArgumentsTyped
<1>1. TypeOK /\ DSMgrInv => ArgumentsTyped
  <2> SUFFICES ASSUME TypeOK, DSMgrInv, route = "dsmgr"
               PROVE  /\ DOMAIN Reads = DOMAIN parsed
                      /\ \A j \in DOMAIN Reads : Reads[j].as = parsed[j].type
    BY Zenon DEF ArgumentsTyped, Reads
  <2> DEFINE types == iarmEventTable[name].types
  <2>1. Fit(types, Reads)
    BY TableFits DEF DSMgrInv, RowFits, Reads
  <2>2. args \in Seq(Words)
    BY ArgsType DEF TypeOK
  <2>3. /\ Len(args) = Len(types)
        /\ parsed = [j \in DOMAIN args |-> [type |-> types[j], word |-> args[j]]]
    BY DEF DSMgrInv
  <2> HIDE DEF types
  <2>4. DOMAIN args = 1 .. Len(types) /\ DOMAIN Reads = DOMAIN args
    BY <2>1, <2>2, <2>3 DEF Fit
  <2>. QED
    BY <2>1, <2>3, <2>4 DEF Fit
<1>. QED
  BY <1>1, TypeInvariant, DSMgrInvariant, PTL

(* Every argument is sent in the field the usage names at its place
   (190-221, 701-1447, 1452-1482). *)
THEOREM FieldsFollowUsage == Spec => []SentAsInUsage
<1>1. TypeOK /\ DSMgrInv => SentAsInUsage
  <2> SUFFICES ASSUME TypeOK, DSMgrInv, route = "dsmgr", name \in DOMAIN Usage,
                      NEW k \in DOMAIN sent, NEW j \in DOMAIN args
               PROVE  sent[k].fields[Usage[name][j]] = args[j]
    BY DEF SentAsInUsage
  <2> DEFINE types == iarmEventTable[name].types
             usage == Usage[name]
  <2>1. Fit(types, Reads)
    BY TableFits DEF DSMgrInv, RowFits, Reads
  <2>2. Ordered(usage, Reads)
    BY UsageOrdered DEF RowOrdered, Reads
  <2>3. Len(args) = Len(types) /\ sent[k].fields = HandlerFields
    BY DEF DSMgrInv
  <2>4. args \in Seq(Words)
    BY ArgsType DEF TypeOK
  <2> HIDE DEF types, usage
  <2>5. j \in DOMAIN Reads
    BY <2>1, <2>3, <2>4 DEF Fit
  <2>6. /\ Reads[j].field = usage[j] /\ usage[j] # None
        /\ \A l \in DOMAIN Reads : Reads[l].field = usage[j] => l = j
    BY <2>2, <2>5 DEF Ordered
  <2>7. (CHOOSE l \in DOMAIN Reads : Reads[l].field = usage[j]) = j
    BY <2>5, <2>6
  <2>8. HandlerFields[usage[j]] = args[j]
    BY <2>5, <2>6, <2>7 DEF HandlerFields
  <2>. QED
    BY <2>3, <2>8 DEF usage
<1>. QED
  BY <1>1, TypeInvariant, DSMgrInvariant, PTL

-----------------------------------------------------------------------------
(* The forms of the USB events: what main joins, sendIARMEventPayload divides. *)
USBMountForm == Named("USBMountChangedEvent") /\ Len(args) = 3
USBDetectedForm == Named("usbdetected") /\ Len(args) = 4

\* There are enough pieces, or it is one of the two ways in which there may not be.
Whole(n) ==
    \/ payload.pieces >= n
    \/ \E j \in DOMAIN args : Pieces[args[j]] = 0
    \/ payload.len = LongLen

FormInv ==
    /\ route = "payload" /\ main # "start" /\ USBMountForm => Whole(3)
    /\ route = "payload" /\ main # "start" /\ USBDetectedForm => Whole(4)
    /\ main = "killed" => route = "payload" /\ PayloadIf[name].pieces > payload.pieces

LEMMA FormsWhole ==
    ASSUME TypeOK, StartUSBMount \/ StartUSBDetected
    PROVE  (USBMountForm => Whole(3)') /\ (USBDetectedForm => Whole(4)')
<1>1. args \in Seq(Words) /\ args' = args
  BY ArgsType DEF TypeOK, StartUSBMount, StartUSBDetected, Use, args
<1>2. \A w \in Words : Given(w) \in Text /\ Given(w).pieces = Pieces[w] /\ Pieces[w] \in Nat
  BY GivenType, WordsAssumption DEF Given
<1>3. SUFFICES ASSUME \A j \in DOMAIN args : Pieces[args[j]] # 0, payload'.len # LongLen
               PROVE  /\ USBMountForm => payload'.pieces >= 3
                      /\ USBDetectedForm => payload'.pieces >= 4
  BY <1>1 DEF Whole
<1>4. \A text \in Text : payload' \in Copies(text, LongLen) => payload' = text
  BY <1>3 DEF Copies
<1>5. CASE StartUSBMount
  <2>1. Len(args) = 3 /\ name = "USBMountChangedEvent"
    BY <1>5 DEF StartUSBMount, Named
  <2>2. args[1] \in Words /\ args[2] \in Words /\ args[3] \in Words /\ DOMAIN args = 1 .. 3
    BY <1>1, <2>1
  <2> DEFINE a == Given(args[1])
             b == Given(args[2])
             c == Given(args[3])
  <2>3. a \in Text /\ b \in Text /\ c \in Text
    BY <1>2, <2>2
  <2>4. a.pieces >= 1 /\ b.pieces >= 1 /\ c.pieces >= 1
    BY <1>2, <1>3, <2>2
  <2>5. payload' \in Copies(Joined(Joined(a, b), c), LongLen)
    BY <1>5 DEF StartUSBMount
  <2> HIDE DEF a, b, c
  <2>6. /\ Joined(Joined(a, b), c) \in Text
        /\ Joined(Joined(a, b), c).pieces = a.pieces + b.pieces + c.pieces
    BY <2>3, JoinedType
  <2>7. payload'.pieces = a.pieces + b.pieces + c.pieces
    BY <1>4, <2>5, <2>6
  <2>8. payload'.pieces >= 3
    BY <2>3, <2>4, <2>7 DEF Text
  <2>9. ~USBDetectedForm
    BY <2>1 DEF USBDetectedForm
  <2>. QED
    BY <2>8, <2>9
<1>6. CASE StartUSBDetected
  <2>1. Len(args) = 4 /\ name = "usbdetected"
    BY <1>6 DEF StartUSBDetected, Named
  <2>2. /\ args[1] \in Words /\ args[2] \in Words /\ args[3] \in Words /\ args[4] \in Words
        /\ DOMAIN args = 1 .. 4
    <3>1. args \in [1 .. 4 -> Words]
      BY <1>1, <2>1
    <3>2. 1 \in 1 .. 4 /\ 2 \in 1 .. 4 /\ 3 \in 1 .. 4 /\ 4 \in 1 .. 4
      OBVIOUS
    <3>. QED
      BY <3>1, <3>2
  <2> DEFINE a == Given(args[1])
             b == Given(args[2])
             c == Given(args[3])
             d == Given(args[4])
  <2>3. a \in Text /\ b \in Text /\ c \in Text /\ d \in Text
    BY <1>2, <2>2
  <2>4. a.pieces >= 1 /\ b.pieces >= 1 /\ c.pieces >= 1 /\ d.pieces >= 1
    BY <1>2, <1>3, <2>2
  <2>5. payload' \in Copies(Joined(Joined(Joined(a, b), c), d), LongLen)
    BY <1>6 DEF StartUSBDetected
  <2> HIDE DEF a, b, c, d
  <2>6. /\ Joined(Joined(Joined(a, b), c), d) \in Text
        /\ Joined(Joined(Joined(a, b), c), d).pieces =
                a.pieces + b.pieces + c.pieces + d.pieces
    BY <2>3, JoinedType
  <2>7. payload'.pieces = a.pieces + b.pieces + c.pieces + d.pieces
    BY <1>4, <2>5, <2>6
  <2>8. payload'.pieces >= 4
    BY <2>3, <2>4, <2>7 DEF Text
  <2>9. ~USBMountForm
    BY <2>1 DEF USBMountForm
  <2>. QED
    BY <2>8, <2>9
<1>. QED
  BY <1>5, <1>6

LEMMA FormInvariant == Spec => []FormInv
<1>1. Init => FormInv
  BY DEF Init, FormInv
<1>2. TypeOK /\ EarlyInv /\ FormInv /\ [Next]_vars => FormInv'
  <2> SUFFICES ASSUME TypeOK, EarlyInv, FormInv, [Next]_vars PROVE FormInv'
    OBVIOUS
  <2>1. argv' = argv
    BY DEF Next, StartUsage, StartStatus, StartCustom, StartDSMgr, StartDSMgrUnknown,
           StartPayload, StartUSBMount, StartUSBDetected, StartAppIds, Refuse, Use, OpenBus,
           SendDSMgr, SendCustom, SendStatus, SendMaintenance, SendPayload,
           PayloadLacksPiece, PayloadUnknown, Sending, CloseBus, vars
  <2>2. /\ name' = name /\ args' = args
        /\ USBMountForm' = USBMountForm /\ USBDetectedForm' = USBDetectedForm
    BY <2>1 DEF name, args, USBMountForm, USBDetectedForm, Named
  <2>3. CASE StartUsage \/ StartStatus \/ StartCustom \/ StartDSMgr \/ StartDSMgrUnknown
    <3>1. main' \in {"open", "done"} /\ route' # "payload"
      BY <2>3 DEF StartUsage, StartStatus, StartCustom, StartDSMgr, StartDSMgrUnknown,
                  Refuse, Use, EarlyInv, None
    <3>. QED
      BY <3>1 DEF FormInv
  <2>4. CASE StartPayload \/ StartAppIds
    <3>1. main' = "open" /\ ~USBMountForm /\ ~USBDetectedForm
      BY <2>4 DEF StartPayload, StartAppIds, Use, USBMountForm, USBDetectedForm
    <3>. QED
      BY <2>2, <3>1 DEF FormInv
  <2>5. CASE StartUSBMount \/ StartUSBDetected
    <3>1. main' = "open"
      BY <2>5 DEF StartUSBMount, StartUSBDetected, Use
    <3>. QED
      BY <2>2, <2>5, <3>1, FormsWhole DEF FormInv
  <2>6. CASE PayloadLacksPiece
    <3>1. /\ main = "send" /\ route = "payload" /\ PayloadIf[name].pieces > payload.pieces
          /\ UNCHANGED <<route, payload>>
      BY <2>6 DEF PayloadLacksPiece, Sending
    <3>. QED
      BY <2>2, <3>1 DEF FormInv, Whole
  <2>7. CASE OpenBus \/ SendDSMgr \/ SendCustom \/ SendStatus \/ SendMaintenance
                \/ SendPayload \/ PayloadUnknown \/ CloseBus
    <3>1. main # "start" /\ main' # "killed" /\ UNCHANGED <<route, payload>>
      BY <2>7 DEF OpenBus, SendDSMgr, SendCustom, SendStatus, SendMaintenance, SendPayload,
                  PayloadUnknown, CloseBus, Sending
    <3>. QED
      BY <2>2, <3>1 DEF FormInv, Whole
  <2>8. CASE UNCHANGED vars
    BY <2>2, <2>8 DEF vars, FormInv, Whole
  <2>. QED
    BY <2>3, <2>4, <2>5, <2>6, <2>7, <2>8 DEF Next
<1>. QED
  BY <1>1, <1>2, TypeInvariant, PTL DEF Spec

(* sendIARMEventPayload finds all the pieces of a USB event, unless an argument is
   empty or the text fills the buffer (306-335, 554-561, 642-659). *)
THEOREM PiecesFound == Spec => []FormsComplete
<1>1. TypeOK /\ FormInv => FormsComplete
  <2> SUFFICES ASSUME TypeOK, FormInv, main = "killed", USBMountForm \/ USBDetectedForm
               PROVE  (\E j \in DOMAIN args : Pieces[args[j]] = 0) \/ payload.len = LongLen
    BY DEF FormsComplete, USBMountForm, USBDetectedForm
  <2>1. route = "payload" /\ PayloadIf[name].pieces > payload.pieces
    BY DEF FormInv
  <2>2. payload.pieces \in Nat
    BY DEF TypeOK, Text
  <2>3. CASE USBMountForm
    <3>1. PayloadIf[name].pieces = 3
      BY <2>3 DEF USBMountForm, Named, PayloadIf
    <3>2. Whole(3)
      BY <2>1, <2>3 DEF FormInv
    <3>. QED
      BY <2>1, <2>2, <3>1, <3>2 DEF Whole
  <2>4. CASE USBDetectedForm
    <3>1. PayloadIf[name].pieces = 4
      BY <2>4 DEF USBDetectedForm, Named, PayloadIf
    <3>2. Whole(4)
      BY <2>1, <2>4 DEF FormInv
    <3>. QED
      BY <2>1, <2>2, <3>1, <3>2 DEF Whole
  <2>. QED
    BY <2>3, <2>4
<1>. QED
  BY <1>1, TypeInvariant, FormInvariant, PTL

-----------------------------------------------------------------------------
(* The abbreviation of an intrusion text. *)

(* Nothing is sent before main is past "send", and what main is about to send
   of an overlong intrusion text is its abbreviation. *)
Overlong == IntrusionText /\ Length[args[2]] \in MaxLen + 1 .. ShortSize - 1

PayloadInv ==
    /\ argv \in CommandLines
    /\ main \in {"start", "open", "send"} => sent = <<>>
    /\ main = "start" => route = None
    /\ Overlong => payload.json /\ payload.len = MaxLen - 1
    /\ AbbreviationSurvives

(* What a copy leaves of a text that is too long is as long as the room there is. *)
LEMMA CopyOfLong ==
    ASSUME NEW text \in Text, NEW n \in Nat, NEW copy \in Copies(text, n), text.len > n
    PROVE  copy.len = n
BY DEF Copies, Text

(* A text that has room is copied as it is. *)
LEMMA CopyOfShort ==
    ASSUME NEW text, NEW n, NEW copy \in Copies(text, n), text.len <= n
    PROVE  copy = text
BY DEF Copies

(* StartPayload abbreviates an intrusion text whose length an unsigned short holds. *)
LEMMA OverlongAbbreviated ==
    ASSUME argv \in CommandLines, StartPayload, Overlong'
    PROVE  payload'.json /\ payload'.len = MaxLen - 1
<1> DEFINE text == Given(args[2])
<1>1. argv' = argv /\ Len(args) = 2 /\ name = "IntrusionEvent"
  BY DEF StartPayload, Use, Overlong, IntrusionText, args, name
<1>2. args[2] \in Words
  BY <1>1, CommandLinesAssumption DEF args
<1>3. text \in Text /\ text.len = Length[args[2]]
  BY <1>2, WordsAssumption DEF Given, Text
<1>4. text.len > MaxLen /\ text.len < ShortSize
  BY <1>1, <1>3, SizesAssumption DEF Overlong, args, Text
<1>5. text.len % ShortSize = text.len
  BY <1>3, <1>4, SizesAssumption DEF Text
<1>6. PICK copy \in Copies(text, MaxLen) :
        payload' \in IF copy.len < text.len % ShortSize THEN Abbreviated(copy) ELSE {copy}
  BY <1>1 DEF StartPayload
<1>7. copy.len = MaxLen
  BY <1>3, <1>4, <1>6, CopyOfLong, SizesAssumption
<1>8. payload' \in Abbreviated(copy)
  BY <1>3, <1>4, <1>5, <1>6, <1>7
<1>. QED
  BY <1>8 DEF Abbreviated

(* No step loses the abbreviation. *)
LEMMA PayloadInvariant == Spec => []PayloadInv
<1>1. Init => PayloadInv
  BY DEF Init, PayloadInv, Overlong, IntrusionText, AbbreviationSurvives, None
<1>2. PayloadInv /\ [Next]_vars => PayloadInv'
  <2> SUFFICES ASSUME PayloadInv, [Next]_vars PROVE PayloadInv'
    OBVIOUS
  <2> USE DEF PayloadInv
  <2>1. CASE StartUsage \/ StartDSMgrUnknown
    BY <2>1 DEF StartUsage, StartDSMgrUnknown, Refuse, Overlong, IntrusionText,
                AbbreviationSurvives, args, name, None
  <2>2. CASE StartStatus \/ StartCustom
    BY <2>2 DEF StartStatus, StartCustom, Use, Overlong, IntrusionText,
                AbbreviationSurvives, args, name
  <2>3. CASE StartDSMgr
    BY <2>3 DEF StartDSMgr, Use, Refuse, Overlong, IntrusionText,
                AbbreviationSurvives, args, name, None
  <2>4. CASE StartPayload
    <3>1. Overlong' => payload'.json /\ payload'.len = MaxLen - 1
      BY <2>4, OverlongAbbreviated
    <3>. QED
      BY <2>4, <3>1 DEF StartPayload, Use, AbbreviationSurvives, args, name
  <2>5. CASE StartUSBMount \/ StartUSBDetected \/ StartAppIds
    <3>1. Len(args) = 3 \/ Len(args) = 4
      BY <2>5, Zenon DEF StartUSBMount, StartUSBDetected, StartAppIds
    <3>2. Use("payload")
      BY <2>5, Zenon DEF StartUSBMount, StartUSBDetected, StartAppIds
    <3>3. main = "start" /\ main' = "open" /\ argv' = argv /\ sent' = sent
      BY <3>2 DEF Use
    <3>4. args' = args /\ Len(args) # 2
      <4>1. args' = args
        BY <3>3 DEF args
      <4>2. 3 # 2 /\ 4 # 2
        OBVIOUS
      <4>. QED
        BY <3>1, <4>1, <4>2, Zenon
    <3>5. ~IntrusionText'
      BY <3>4, Zenon DEF IntrusionText
    <3>. QED
      BY <3>3, <3>5 DEF Overlong, AbbreviationSurvives
  <2>6. CASE OpenBus
    BY <2>6 DEF OpenBus, Overlong, IntrusionText, AbbreviationSurvives, args, name
  <2>7. CASE SendDSMgr \/ SendCustom \/ SendStatus \/ SendMaintenance
    BY <2>7 DEF SendDSMgr, SendCustom, SendStatus, SendMaintenance, Sending, Overlong,
                IntrusionText, AbbreviationSurvives, args, name
  <2>8. CASE SendPayload
    <3>1. /\ main' = "close" /\ argv' = argv /\ route' = route /\ payload' = payload
          /\ sent = <<>>
      BY <2>8 DEF SendPayload, Sending
    <3>2. Overlong' => Overlong
      BY <3>1 DEF Overlong, IntrusionText, args, name
    <3>3. Overlong => \A k \in DOMAIN sent' :
                        sent'[k].text.json /\ sent'[k].text.len < DataSize
      <4> SUFFICES ASSUME Overlong
                   PROVE  \A k \in DOMAIN sent' :
                            sent'[k].text.json /\ sent'[k].text.len < DataSize
        OBVIOUS
      <4>1. PICK text \in Copies(payload, DataSize - 1) :
              \/ sent' = Append(sent, Event("INTRUSION", text, <<>>))
              \/ sent' = sent
        BY <2>8 DEF SendPayload, Broadcast, Overlong, IntrusionText
      <4>2. payload.json /\ payload.len = MaxLen - 1
        OBVIOUS
      <4>3. text = payload
        BY <4>1, <4>2, CopyOfShort, SizesAssumption
      <4>4. sent' = <<Event("INTRUSION", payload, <<>>)>> \/ sent' = <<>>
        BY <3>1, <4>1, <4>3
      <4>5. MaxLen - 1 < DataSize
        BY SizesAssumption
      <4>. QED
        BY <4>2, <4>4, <4>5 DEF Event
    <3>. QED
      BY <3>1, <3>2, <3>3 DEF Overlong, AbbreviationSurvives
  <2>9. CASE PayloadLacksPiece \/ PayloadUnknown \/ CloseBus
    BY <2>9 DEF PayloadLacksPiece, PayloadUnknown, CloseBus, Sending, Overlong,
                IntrusionText, AbbreviationSurvives, args, name
  <2>10. CASE UNCHANGED vars
    BY <2>10 DEF vars, Overlong, IntrusionText, AbbreviationSurvives, args, name
  <2>. QED
    BY <2>1, <2>2, <2>3, <2>4, <2>5, <2>6, <2>7, <2>8, <2>9, <2>10 DEF Next
<1>. QED
  BY <1>1, <1>2, PTL DEF Spec

(* Whatever the sizes of the buffers, the unsigned short and the text, a text
   whose length the short holds is sent with its JSON termination (276-288). *)
THEOREM AbbreviationReachesSubscribers == Spec => []AbbreviationSurvives
<1>1. PayloadInv => AbbreviationSurvives
  BY DEF PayloadInv
<1>. QED
  BY <1>1, PayloadInvariant, PTL
=============================================================================
