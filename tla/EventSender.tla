----------------------------- MODULE EventSender -----------------------------
(***************************************************************************)
(* IARM_event_sender (iarm-event-sender/IARM_event_sender.c): one command  *)
(* line, at most one event broadcast on the IARM bus.                      *)
(*                                                                         *)
(* What is done with a command line depends on how many arguments it has,  *)
(* on the event's name, and on the features the program was built with,    *)
(* which the model picks along with the command line.  Texts are known by  *)
(* their length, by how many pieces their colons make of them, and by      *)
(* whether they end in the JSON termination subscribers expect.            *)
(***************************************************************************)
EXTENDS Integers, Sequences

CONSTANTS
    Words,            \* the words on a command line
    Length,           \* their lengths
    Pieces,           \* into how many non-empty pieces ':' divides them
    Terminated,       \* those that end in a JSON termination
    Booleans,         \* those parseArg takes for a bool: 0, 1, true, false
    CommandLines,     \* the command lines
    MaxLen,           \* IARM_BUS_SYSMGR_Intrusion_MaxLen
    DataSize,         \* the size of intrusionData in the event
    LongLen,          \* the room in the buffers of the USB events; 1023 in the code
    MaxStray,         \* bound on how far a text without an end is read past its buffer
    ShortSize         \* the numbers an unsigned short can tell apart

None == "none"                    \* no name, no function, no complaint, no field

ASSUME WordsAssumption ==
    /\ Length \in [Words -> Nat]
    /\ Pieces \in [Words -> Nat]
    /\ Terminated \subseteq Words
    /\ Booleans \subseteq Words

\* exact: the name is spelt as in the source; otherwise letters differ in case.
ASSUME CommandLinesAssumption ==
    CommandLines \subseteq [name : STRING, exact : BOOLEAN, args : Seq(Words)]

\* An abbreviated payload is '+' and four characters of JSON behind some text.
ASSUME SizesAssumption ==
    /\ MaxLen \in Nat /\ MaxLen >= 6
    /\ DataSize \in Nat /\ DataSize >= MaxLen
    /\ LongLen \in Nat /\ MaxStray \in Nat
    /\ ShortSize \in Nat /\ ShortSize > MaxLen

Features == {"HAS_MAINTENANCE_MANAGER", "HAS_WIFI_SUPPORT",
             "PLATFORM_SUPPORTS_RDMMGR", "CTRLM_ENABLED"}

VARIABLES
    build,            \* the features compiled in
    argv,             \* the command line
    main,             \* where the program is; "killed" by a null pointer
    route,            \* the function that sends
    parsed,           \* the ArgValues handleIARMEvents has filled in
    payload,          \* eventPayload
    bus,              \* between IARM_Bus_Connect and IARM_Bus_Disconnect
    sent,             \* what was broadcast, or passed to IARM_Bus_Call
    said              \* the last complaint printed, or None

vars == <<build, argv, main, route, parsed, payload, bus, sent, said>>

name == argv.name
args == argv.args

Text == [len : Nat, pieces : Nat, json : BOOLEAN]
NoText == [len |-> 0, pieces |-> 0, json |-> FALSE]

\* strcmp, where strcasecmp would do.
Named(n) == name = n /\ argv.exact

\* eventPayload of the application ids: four of six bytes, and one never written.
AppIdsSize == 25

\* How long eventPayload can be as a text; what ends that of the ids is somewhere behind.
Room == CASE Len(args) = 2 -> MaxLen
          [] Len(args) = 4 /\ ~Named("usbdetected") -> AppIdsSize + MaxStray
          [] OTHER -> LongLen

TypeOK ==
    /\ build \subseteq Features
    /\ argv \in CommandLines
    /\ main \in {"start", "open", "send", "close", "done", "killed"}
    /\ route \in {None, "dsmgr", "status", "payload", "custom"}
    /\ parsed \in Seq([type : {"INT", "BOOL", "STRING"}, word : Words])
    /\ payload \in Text /\ payload.len <= Room
    /\ bus \in BOOLEAN
    /\ \A k \in DOMAIN sent : sent[k].text \in Text
    /\ said \in {None, "usage", "arguments", "argument", "unknown", "no match", "failure"}

Init ==
    /\ build \in SUBSET Features
    /\ argv \in CommandLines
    /\ main = "start"
    /\ route = None
    /\ parsed = <<>>
    /\ payload = NoText
    /\ bus = FALSE
    /\ sent = <<>>
    /\ said = None

-----------------------------------------------------------------------------
(* The DSMgr_ events: the types handleIARMEvents parses the arguments as, and
   the event with what its handler reads them as and where it puts them. *)

I(field) == [as |-> "INT", field |-> field]
B(field) == [as |-> "BOOL", field |-> field]
S(field) == [as |-> "STRING", field |-> field]

\* Mutant: the video mode handler exchanges two numbers.
CompositeInHandlers_Exchanged ==
    [handleCompositeInHotPlug |->
        [event |-> "COMPOSITE_IN_HOTPLUG", reads |-> <<I("port"), B("isPortConnected")>>],
     handleCompositeInSignalStatus |->
        [event |-> "COMPOSITE_IN_SIGNAL_STATUS", reads |-> <<I("port"), I("status")>>],
     handleCompositeInStatus |->
        [event |-> "COMPOSITE_IN_STATUS", reads |-> <<I("port"), B("isPresented")>>],
     handleCompositeInVideoModeUpdate |->
        [event |-> "COMPOSITE_IN_VIDEO_MODE_UPDATE",
         reads |-> <<I("port"), I("interlaced"), I("pixelResolution"), I("frameRate")>>]]

CompositeInHandlers ==
    [handleCompositeInHotPlug |->
        [event |-> "COMPOSITE_IN_HOTPLUG", reads |-> <<I("port"), B("isPortConnected")>>],
     handleCompositeInSignalStatus |->
        [event |-> "COMPOSITE_IN_SIGNAL_STATUS", reads |-> <<I("port"), I("status")>>],
     handleCompositeInStatus |->
        [event |-> "COMPOSITE_IN_STATUS", reads |-> <<I("port"), B("isPresented")>>],
     handleCompositeInVideoModeUpdate |->
        [event |-> "COMPOSITE_IN_VIDEO_MODE_UPDATE",
         reads |-> <<I("port"), I("pixelResolution"), I("interlaced"), I("frameRate")>>]]

HdmiHandlers ==
    [handleHdmiAllmEvent |->
        [event |-> "HDMI_IN_ALLM_STATUS", reads |-> <<I("port"), I("allm_mode")>>],
     handleHdmiVrrEvent |->
        [event |-> "HDMI_IN_VRR_STATUS", reads |-> <<I("port"), I("vrr_type")>>],
     handleHdmiInVideoModeUpdate |->
        [event |-> "HDMI_IN_VIDEO_MODE_UPDATE",
         reads |-> <<I("port"), I("pixelResolution"), I("interlaced"), I("frameRate")>>],
     handleHdmiInStatus |->
        [event |-> "HDMI_IN_STATUS", reads |-> <<I("port"), B("isPresented")>>],
     handleHdmiInSignalStatus |->
        [event |-> "HDMI_IN_SIGNAL_STATUS", reads |-> <<I("port"), I("status")>>],
     handleHdmiInHotPlug |->
        [event |-> "HDMI_IN_HOTPLUG", reads |-> <<I("port"), B("isPortConnected")>>],
     handleHdmiHotPlug |->
        [event |-> "HDMI_HOTPLUG", reads |-> <<B("event")>>],
     handleHdmiInAviContentType |->
        [event |-> "HDMI_IN_AVI_CONTENT_TYPE", reads |-> <<I("port"), I("aviContentType")>>]]

AudioHandlers ==
    [handleAudioOutHotPlug |->
        [event |-> "AUDIO_OUT_HOTPLUG",
         reads |-> <<I("portType"), I("uiPortNo"), B("isPortConnected")>>],
     handleAudioFormatUpdate |->
        [event |-> "AUDIO_FORMAT_UPDATE", reads |-> <<I("audioFormat")>>],
     handleAudioPrimaryLanguageChanged |->
        [event |-> "AUDIO_PRIMARY_LANGUAGE_CHANGED", reads |-> <<S("audioLanguage")>>],
     handleAudioSecondaryLanguageChanged |->
        [event |-> "AUDIO_SECONDARY_LANGUAGE_CHANGED", reads |-> <<S("audioLanguage")>>],
     handleAudioFaderControl |->
        [event |-> "AUDIO_FADER_CONTROL_CHANGED", reads |-> <<I("mixerbalance")>>],
     handleAudioMixingChanged |->
        [event |-> "AUDIO_ASSOCIATED_AUDIO_MIXING_CHANGED", reads |-> <<I("mixing")>>],
     handleAudioPortState |->
        [event |-> "AUDIO_PORT_STATE", reads |-> <<I("audioPortState")>>],
     handleAudioMode |->
        [event |-> "AUDIO_MODE", reads |-> <<I("mode"), I("type")>>]]

DisplayHandlers ==
    [handleDisplayFrameRatePreChange |->
        [event |-> "DISPLAY_FRAMRATE_PRECHANGE", reads |-> <<S("framerate")>>],
     handleDisplayFrameRatePostChange |->
        [event |-> "DISPLAY_FRAMRATE_POSTCHANGE", reads |-> <<S("framerate")>>],
     handleAtmosCapsChanged |->
        [event |-> "ATMOS_CAPS_CHANGED", reads |-> <<I("caps"), B("status")>>],
     handleAudioLevelChanged |->
        [event |-> "AUDIO_LEVEL_CHANGED", reads |-> <<I("level")>>],
     handleVideoFormatUpdate |->
        [event |-> "VIDEO_FORMAT_UPDATE", reads |-> <<I("videoFormat")>>],
     handleEventZoomSetting |->
        [event |-> "ZOOM_SETTINGS", reads |-> <<I("zoomsettings")>>],
     handleDisplayResolutionPreChange |->
        [event |-> "RES_PRECHANGE", reads |-> <<I("height"), I("width")>>],
     handleDisplayResolutionPostChange |->
        [event |-> "RES_POSTCHANGE", reads |-> <<I("height"), I("width")>>],
     handleHdmiInAvLatency |->
        [event |-> "HDMI_IN_AV_LATENCY",
         reads |-> <<I("audio_output_delay"), I("video_latency")>>]]

\* Mutant: the HDCP handler takes its text for a number.
StatusHandlers_TextAsNumber ==
    [handleEventRxSense |->
        [event |-> "RX_SENSE", reads |-> <<I("status")>>],
     handleEventHdcpStatus |->
        [event |-> "HDCP_STATUS", reads |-> <<I(None)>>]]

StatusHandlers ==
    [handleEventRxSense |->
        [event |-> "RX_SENSE", reads |-> <<I("status")>>],
     handleEventHdcpStatus |->
        [event |-> "HDCP_STATUS", reads |-> <<S(None)>>]]

Handler(h) ==
    CASE h \in DOMAIN CompositeInHandlers -> CompositeInHandlers[h]
      [] h \in DOMAIN HdmiHandlers -> HdmiHandlers[h]
      [] h \in DOMAIN AudioHandlers -> AudioHandlers[h]
      [] h \in DOMAIN DisplayHandlers -> DisplayHandlers[h]
      [] h \in DOMAIN StatusHandlers -> StatusHandlers[h]

Entry(types, handler) == [types |-> types, handler |-> handler]

iarmEventTable ==
    [DSMgr_CompositeInHotPlug |-> Entry(<<"INT", "BOOL">>, "handleCompositeInHotPlug"),
     DSMgr_CompositeInSignalStatus |->
        Entry(<<"INT", "INT">>, "handleCompositeInSignalStatus"),
     DSMgr_CompositeInStatus |-> Entry(<<"INT", "BOOL">>, "handleCompositeInStatus"),
     DSMgr_CompositeInVideoModeUpdate |->
        Entry(<<"INT", "INT", "INT", "INT">>, "handleCompositeInVideoModeUpdate"),
     DSMgr_HdmiInVideoModeUpdate |->
        Entry(<<"INT", "INT", "INT", "INT">>, "handleHdmiInVideoModeUpdate"),
     DSMgr_HdmiAllmEvent |-> Entry(<<"INT", "INT">>, "handleHdmiAllmEvent"),
     DSMgr_HdmiVrrEvent |-> Entry(<<"INT", "INT">>, "handleHdmiVrrEvent"),
     DSMgr_HdmiInStatus |-> Entry(<<"INT", "BOOL">>, "handleHdmiInStatus"),
     DSMgr_HdmiInSignalStatus |-> Entry(<<"INT", "INT">>, "handleHdmiInSignalStatus"),
     DSMgr_HdmiInHotPlug |-> Entry(<<"INT", "BOOL">>, "handleHdmiInHotPlug"),
     DSMgr_HdmiInAviContentType |-> Entry(<<"INT", "INT">>, "handleHdmiInAviContentType"),
     DSMgr_AudioOutHotPlug |-> Entry(<<"INT", "INT", "BOOL">>, "handleAudioOutHotPlug"),
     DSMgr_AudioFormatUpdate |-> Entry(<<"INT">>, "handleAudioFormatUpdate"),
     DSMgr_AudioSecondaryLanguageChanged |->
        Entry(<<"STRING">>, "handleAudioSecondaryLanguageChanged"),
     DSMgr_AudioPrimaryLanguageChanged |->
        Entry(<<"STRING">>, "handleAudioPrimaryLanguageChanged"),
     DSMgr_AudioFaderControl |-> Entry(<<"INT">>, "handleAudioFaderControl"),
     DSMgr_AudioMixingChanged |-> Entry(<<"INT">>, "handleAudioMixingChanged"),
     DSMgr_AudioPortState |-> Entry(<<"INT">>, "handleAudioPortState"),
     DSMgr_AudioMode |-> Entry(<<"INT", "INT">>, "handleAudioMode"),
     DSMgr_DisplayFrameRatePreChange |->
        Entry(<<"STRING">>, "handleDisplayFrameRatePreChange"),
     DSMgr_DisplayFrameRatePostChange |->
        Entry(<<"STRING">>, "handleDisplayFrameRatePostChange"),
     DSMgr_AtmosCapsChanged |-> Entry(<<"INT", "BOOL">>, "handleAtmosCapsChanged"),
     DSMgr_EventRxSense |-> Entry(<<"INT">>, "handleEventRxSense"),
     DSMgr_EventZoomSettings |-> Entry(<<"INT">>, "handleEventZoomSetting"),
     DSMgr_HdmiHotPlug |-> Entry(<<"BOOL">>, "handleHdmiHotPlug"),
     DSMgr_AudioLevelChanged |-> Entry(<<"INT">>, "handleAudioLevelChanged"),
     DSMgr_VideoFormatUpdate |-> Entry(<<"INT">>, "handleVideoFormatUpdate"),
     DSMgr_DisplayResolutionPreChange |->
        Entry(<<"INT", "INT">>, "handleDisplayResolutionPreChange"),
     DSMgr_DisplayResolutionPostChange |->
        Entry(<<"INT", "INT">>, "handleDisplayResolutionPostChange"),
     DSMgr_HdmiInAvLatency |-> Entry(<<"INT", "INT">>, "handleHdmiInAvLatency"),
     DSMgr_EventHdcpStatus |-> Entry(<<"STRING">>, "handleEventHdcpStatus")]

-----------------------------------------------------------------------------
(* main *)

\* Names that begin as DSMgr_ does, of which five characters are compared;
\* DSMgr_Other stands for those not in the table.
DSMgrNames == DOMAIN iarmEventTable \cup {"DSMgr_Other"}

IsDSMgr == name \in DSMgrNames /\ argv.exact

\* A complaint is printed and the program ends.
Refuse(complaint) ==
    /\ main = "start"
    /\ main' = "done"
    /\ said' = complaint
    /\ UNCHANGED <<build, argv, route, parsed, payload, bus, sent>>

\* The functions that send all begin with IARM_Bus_Init and IARM_Bus_Connect.
Use(function) ==
    /\ main = "start"
    /\ main' = "open"
    /\ route' = function
    /\ UNCHANGED <<build, argv, bus, sent, said>>

StartUsage ==
    /\ ~IsDSMgr
    /\ \/ name = None
       \/ Len(args) \notin {1, 2, 3, 4}
       \/ Len(args) = 3 /\ ~Named("CustomEvent") /\ ~Named("USBMountChangedEvent")
    /\ Refuse("usage")

StartStatus ==
    /\ ~IsDSMgr /\ name # None
    /\ Len(args) = 1
    /\ Use("status")
    /\ UNCHANGED <<parsed, payload>>

StartCustom ==
    /\ Len(args) = 3 /\ Named("CustomEvent")
    /\ Use("custom")
    /\ UNCHANGED <<parsed, payload>>

\* parseArg
Parses(word, type) == type = "BOOL" => word \in Booleans

Acceptable(entry) ==
    /\ Len(args) = Len(entry.types)
    /\ \A j \in DOMAIN args : Parses(args[j], entry.types[j])

\* handleIARMEvents
StartDSMgr ==
    /\ IsDSMgr
    /\ name \in DOMAIN iarmEventTable
    /\ LET entry == iarmEventTable[name]
       IN  \/ /\ Acceptable(entry)
              /\ parsed' = [j \in DOMAIN args |-> [type |-> entry.types[j], word |-> args[j]]]
              /\ Use("dsmgr")
              /\ UNCHANGED payload
           \/ /\ ~Acceptable(entry)
              /\ Refuse(IF Len(args) # Len(entry.types) THEN "arguments" ELSE "argument")

StartDSMgrUnknown ==
    /\ IsDSMgr
    /\ name \notin DOMAIN iarmEventTable
    /\ Refuse("unknown")

-----------------------------------------------------------------------------
(* main, the payloads *)

\* Mutant: the copy is not limited to the room there is.
Copies_Unlimited(text, n) == {text}

\* What a copy with room for n characters may hold: a cut may fall anywhere in the text.
Copies(text, n) ==
    IF text.len <= n
    THEN {text}
    ELSE [len : {n}, pieces : 0 .. text.pieces, json : BOOLEAN]

Given(w) == [len |-> Length[w], pieces |-> Pieces[w], json |-> w \in Terminated]

\* snprintf("%s:%s")
Joined(t, u) ==
    [len |-> t.len + 1 + u.len, pieces |-> t.pieces + u.pieces, json |-> u.json]

\* Mutant: room is made for the JSON termination, not for the subscriber's copy.
Abbreviated_OneLonger(text) ==
    [len : {MaxLen}, pieces : 1 .. text.pieces + 1, json : {TRUE}]

\* '+' and the JSON termination end one short of the buffer's last character; they
\* may cover colons, and are a piece of their own behind one.
Abbreviated(text) == [len : {MaxLen - 1}, pieces : 1 .. text.pieces + 1, json : {TRUE}]

\* Whether the text was too long is asked with its length in an unsigned short.
StartPayload ==
    /\ ~IsDSMgr /\ name # None
    /\ Len(args) = 2
    /\ Use("payload")
    /\ LET text == IF name = "PeripheralUpgradeEvent"
                   THEN Joined(Given(args[1]), Given(args[2]))
                   ELSE Given(args[2])
           full_len == text.len % ShortSize
       IN  \E copy \in Copies(text, MaxLen) :
              payload' \in IF copy.len < full_len THEN Abbreviated(copy) ELSE {copy}
    /\ UNCHANGED parsed

\* Mutant: the directory is left out.
StartUSBMount_NoDirectory ==
    /\ Len(args) = 3 /\ Named("USBMountChangedEvent")
    /\ Use("payload")
    /\ payload' \in Copies(Joined(Given(args[1]), Given(args[2])), LongLen)
    /\ UNCHANGED parsed

StartUSBMount ==
    /\ Len(args) = 3 /\ Named("USBMountChangedEvent")
    /\ Use("payload")
    /\ payload' \in Copies(Joined(Joined(Given(args[1]), Given(args[2])), Given(args[3])),
                           LongLen)
    /\ UNCHANGED parsed

StartUSBDetected ==
    /\ Len(args) = 4 /\ Named("usbdetected")
    /\ Use("payload")
    /\ payload' \in Copies(Joined(Joined(Joined(Given(args[1]), Given(args[2])),
                                         Given(args[3])), Given(args[4])),
                           LongLen)
    /\ UNCHANGED parsed

\* A text in memory nobody wrote, or that nothing ends: up to as many pieces as any
\* event takes, none of them empty.
Strays ==
    {t \in [len : 0 .. AppIdsSize + MaxStray, pieces : 0 .. 4, json : BOOLEAN] :
        /\ 2 * t.pieces <= t.len + 1
        /\ t.json => t.len >= 4}

\* Only EISSAppIdEvent has its ids written to the buffer, with no end to the text; for
\* any other event the whole of it is whatever was there.
StartAppIds ==
    /\ ~IsDSMgr /\ name # None /\ ~Named("usbdetected")
    /\ Len(args) = 4
    /\ Use("payload")
    /\ payload' \in Strays
    /\ UNCHANGED parsed

-----------------------------------------------------------------------------
OpenBus ==
    /\ main = "open"
    /\ main' = "send"
    /\ bus' = TRUE
    /\ UNCHANGED <<build, argv, route, parsed, payload, sent, said>>

Sending(function) ==
    /\ main = "send"
    /\ route = function
    /\ UNCHANGED <<build, argv, route, parsed, payload>>

Event(id, text, fields) == [event |-> id, text |-> text, fields |-> fields]

\* IARM_Bus_BroadcastEvent and IARM_Bus_Call (external) may fail: nothing is sent then.
Broadcast(event) ==
    \/ sent' = Append(sent, event)
    \/ UNCHANGED sent

\* What most callers do with the result: a failure is printed, and changes nothing else.
Reported == IF sent' = sent THEN "failure" ELSE said

\* Each handler fills the event from its arguments; texts are cut to their fields.
SendDSMgr ==
    /\ Sending("dsmgr")
    /\ LET h == Handler(iarmEventTable[name].handler)
       IN  Broadcast(Event(h.event, NoText,
                           [f \in {h.reads[j].field : j \in DOMAIN h.reads} \ {None} |->
                              args[CHOOSE j \in DOMAIN h.reads : h.reads[j].field = f]]))
    /\ said' = Reported
    /\ main' = "close"
    /\ UNCHANGED bus

SendCustom ==
    /\ Sending("custom")
    /\ Broadcast(Event("SYSTEMSTATE", NoText, <<>>))
    /\ said' = Reported
    /\ main' = "close"
    /\ UNCHANGED bus

-----------------------------------------------------------------------------
(* sendIARMEvent *)

eventList ==
    [ImageDwldEvent |-> "FIRMWARE_DWNLD", GatewayConnEvent |-> "GATEWAY_CONNECTION",
     TuneReadyEvent |-> "TUNEREADY", MocaStatusEvent |-> "MOCA",
     ChannelMapEvent |-> "CHANNELMAP", NTPReceivedEvent |-> "TIME_SOURCE",
     PartnerIdEvent |-> "PARTNERID_CHANGE", FirmwareStateEvent |-> "FIRMWARE_UPDATE_STATE",
     IpmodeEvent |-> "IP_MODE", usbdetected |-> "USB_DETECTED",
     LogUploadEvent |-> "LOG_UPLOAD", RedStateEvent |-> "RED_RECOV_UPDATE_STATE"]

\* The events with an if of their own, and the feature each needs.
OwnIf ==
    [EISSFilterEvent |-> [event |-> "EISS_FILTER_STATUS", needs |-> {}],
     MaintenanceMGR |-> [event |-> "MAINTENANCEMGR_UPDATE",
                         needs |-> {"HAS_MAINTENANCE_MANAGER"}],
     WiFiInterfaceStateEvent |-> [event |-> "WIFI_INTERFACE_STATE",
                                  needs |-> {"HAS_WIFI_SUPPORT"}],
     AppDownloadEvent |-> [event |-> "APPDOWNLOADS_CHANGED",
                           needs |-> {"PLATFORM_SUPPORTS_RDMMGR"}]]

Compiled == {n \in DOMAIN OwnIf : OwnIf[n].needs \subseteq build}

\* The else with the event list belongs to the last if compiled, not to all of them.
LastIf ==
    CASE "AppDownloadEvent" \in Compiled -> "AppDownloadEvent"
      [] "AppDownloadEvent" \notin Compiled /\ "WiFiInterfaceStateEvent" \in Compiled ->
            "WiFiInterfaceStateEvent"
      [] OTHER -> IF "MaintenanceMGR" \in Compiled THEN "MaintenanceMGR" ELSE "EISSFilterEvent"

StatusEvents == Compiled \cup DOMAIN eventList

StatusEvent ==
    IF name \in Compiled THEN OwnIf[name].event ELSE "SYSTEMSTATE"

SendStatus ==
    /\ Sending("status")
    /\ ~(name = "MaintenanceMGR" /\ name \in Compiled)
    /\ IF name \in StatusEvents
       THEN Broadcast(Event(StatusEvent, NoText, <<>>))
       ELSE UNCHANGED sent
    /\ said' = IF name # LastIf /\ name \notin DOMAIN eventList THEN "no match" ELSE Reported
    /\ main' = "close"
    /\ UNCHANGED bus

\* Mutant: the early return leaves the bus connected.
SendMaintenance_StaysConnected ==
    /\ Sending("status")
    /\ name = "MaintenanceMGR" /\ name \in Compiled
    /\ Broadcast(Event(StatusEvent, NoText, <<>>))
    /\ said' = Reported
    /\ main' = "done"
    /\ UNCHANGED bus

\* MaintenanceMGR has a return of its own, and closes the bus before it.
SendMaintenance ==
    /\ Sending("status")
    /\ name = "MaintenanceMGR" /\ name \in Compiled
    /\ Broadcast(Event(StatusEvent, NoText, <<>>))
    /\ said' = Reported
    /\ main' = "done"
    /\ bus' = FALSE

-----------------------------------------------------------------------------
(* sendIARMEventPayload *)

\* The events with a payload: the feature each needs, the pieces it takes the payload
\* to have (strtok finds none beyond the last), and whether it looks at the result.
PayloadIf ==
    [IntrusionEvent |->
        [event |-> "INTRUSION", needs |-> {}, pieces |-> 0, looks |-> TRUE],
     EISSAppIdEvent |->
        [event |-> "EISS_APP_ID_UPDATE", needs |-> {}, pieces |-> 0, looks |-> FALSE],
     PeripheralUpgradeEvent |->
        [event |-> "CALL_UPDATE_AVAILABLE", needs |-> {"CTRLM_ENABLED"}, pieces |-> 2,
         looks |-> FALSE],
     USBMountChangedEvent |->
        [event |-> "USB_MOUNT_CHANGED", needs |-> {}, pieces |-> 3, looks |-> TRUE],
     MaintenanceMGR |->
        [event |-> "DCM_NEW_START_TIME", needs |-> {"HAS_MAINTENANCE_MANAGER"},
         pieces |-> 0, looks |-> FALSE],
     RDMAppStatusEvent |->
        [event |-> "APP_INSTALLATION_STATUS", needs |-> {"PLATFORM_SUPPORTS_RDMMGR"},
         pieces |-> 0, looks |-> TRUE],
     IpmodeEvent |->
        [event |-> "SYSTEMSTATE", needs |-> {}, pieces |-> 0, looks |-> TRUE],
     usbdetected |->
        [event |-> "SYSSTATE_USB_DETECTED", needs |-> {}, pieces |-> 4, looks |-> TRUE]]

PayloadEvents == {n \in DOMAIN PayloadIf : PayloadIf[n].needs \subseteq build}

\* intrusionData keeps the text whole; the other events keep parts of it.
SendPayload ==
    /\ Sending("payload")
    /\ name \in PayloadEvents
    /\ PayloadIf[name].pieces <= payload.pieces
    /\ IF name = "IntrusionEvent"
       THEN \E text \in Copies(payload, DataSize - 1) :
                Broadcast(Event("INTRUSION", text, <<>>))
       ELSE Broadcast(Event(PayloadIf[name].event, NoText, <<>>))
    /\ said' = IF PayloadIf[name].looks THEN Reported ELSE said
    /\ main' = "close"
    /\ UNCHANGED bus

\* A piece that is missing is a null pointer to strncpy, memcpy or atoi.
PayloadLacksPiece ==
    /\ Sending("payload")
    /\ name \in PayloadEvents
    /\ PayloadIf[name].pieces > payload.pieces
    /\ main' = "killed"
    /\ bus' = FALSE
    /\ UNCHANGED <<sent, said>>

\* Mutant: nothing is printed for an event that has no payload.
PayloadUnknown_Silent ==
    /\ Sending("payload")
    /\ name \notin PayloadEvents
    /\ main' = "close"
    /\ UNCHANGED <<bus, sent, said>>

PayloadUnknown ==
    /\ Sending("payload")
    /\ name \notin PayloadEvents
    /\ said' = "no match"
    /\ main' = "close"
    /\ UNCHANGED <<bus, sent>>

CloseBus ==
    /\ main = "close"
    /\ main' = "done"
    /\ bus' = FALSE
    /\ UNCHANGED <<build, argv, route, parsed, payload, sent, said>>

Next ==
    \/ StartUsage \/ StartStatus \/ StartCustom \/ StartDSMgr \/ StartDSMgrUnknown
    \/ StartPayload \/ StartUSBMount \/ StartUSBDetected \/ StartAppIds
    \/ OpenBus
    \/ SendDSMgr \/ SendCustom \/ SendStatus \/ SendMaintenance
    \/ SendPayload \/ PayloadLacksPiece \/ PayloadUnknown
    \/ CloseBus

Spec == Init /\ [][Next]_vars

-----------------------------------------------------------------------------
(* On every path that returns, the error paths and the early return included,
   the bus is disconnected, and nothing is sent but while connected (373-674, 1399-1404). *)
BusReleased ==
    /\ main = "done" => ~bus
    /\ main = "send" => bus

(* A program that ends without having sent anything has said why, whatever the
   command line, the build and the bus did (235-371, 391, 483, 510, 668, 716, 1374-1408).
   Three sends break this: the results at 532, 547 and 582 are not looked at. *)
NothingUnsaid ==
    main = "done" /\ sent = <<>> /\ said = None
        => /\ route = "payload"
           /\ name \in {"EISSAppIdEvent", "PeripheralUpgradeEvent", "MaintenanceMGR"}
           /\ name \in PayloadEvents

(* A handler reads as many arguments as were parsed, each as the type it was
   parsed as: 31 table entries and 31 handlers are kept in step by hand (150-182,
   701-1447). *)
ArgumentsTyped ==
    route = "dsmgr" =>
        LET reads == Handler(iarmEventTable[name].handler).reads
        IN  /\ DOMAIN reads = DOMAIN parsed
            /\ \A j \in DOMAIN reads : reads[j].as = parsed[j].type

IntrusionText == route = "payload" /\ name = "IntrusionEvent" /\ Len(args) = 2

(* An intrusion text too long for the buffer still reaches subscribers with a
   valid JSON termination, although it is cut once for the buffer and once more
   for the event, of a different size (270-288, 505-506). *)
AbbreviationSurvives ==
    IntrusionText /\ Length[args[2]] \in MaxLen + 1 .. ShortSize - 1
        => \A k \in DOMAIN sent : sent[k].text.json /\ sent[k].text.len < DataSize

(* The forms made for the USB events never lack a piece sendIARMEventPayload
   takes, although one function joins and another divides: it stumbles only over
   an empty argument or a text that fills the buffer (306-335, 554-561, 642-659). *)
FormsComplete ==
    /\ main = "killed"
    /\ \/ Named("USBMountChangedEvent") /\ Len(args) = 3
       \/ Named("usbdetected") /\ Len(args) = 4
    => (\E j \in DOMAIN args : Pieces[args[j]] = 0) \/ payload.len = LongLen

\* The order in which the usage names the arguments, where there are several; it
\* gives those of DSMgr_AudioMode the other way round than the handler reads them.
Usage ==
    [DSMgr_CompositeInHotPlug |-> <<"port", "isPortConnected">>,
     DSMgr_CompositeInSignalStatus |-> <<"port", "status">>,
     DSMgr_CompositeInStatus |-> <<"port", "isPresented">>,
     DSMgr_CompositeInVideoModeUpdate |->
        <<"port", "pixelResolution", "interlaced", "frameRate">>,
     DSMgr_HdmiAllmEvent |-> <<"port", "allm_mode">>,
     DSMgr_HdmiInVideoModeUpdate |->
        <<"port", "pixelResolution", "interlaced", "frameRate">>,
     DSMgr_HdmiVrrEvent |-> <<"port", "vrr_type">>,
     DSMgr_HdmiInStatus |-> <<"port", "isPresented">>,
     DSMgr_HdmiInSignalStatus |-> <<"port", "status">>,
     DSMgr_HdmiInHotPlug |-> <<"port", "isPortConnected">>,
     DSMgr_HdmiInAviContentType |-> <<"port", "aviContentType">>,
     DSMgr_AudioOutHotPlug |-> <<"portType", "uiPortNo", "isPortConnected">>,
     DSMgr_AtmosCapsChanged |-> <<"caps", "status">>,
     DSMgr_DisplayResolutionPreChange |-> <<"height", "width">>,
     DSMgr_DisplayResolutionPostChange |-> <<"height", "width">>,
     DSMgr_HdmiInAvLatency |-> <<"audio_output_delay", "video_latency">>]

(* Whatever way an argument takes through the table, the parser and a handler, it
   is sent in the field the usage names at its place (190-221, 1452-1482). *)
SentAsInUsage ==
    route = "dsmgr" /\ name \in DOMAIN Usage
        => \A k \in DOMAIN sent, j \in DOMAIN args :
              sent[k].fields[Usage[name][j]] = args[j]

-----------------------------------------------------------------------------
(* "valid termination for overflowed buffer" (228), "check if input event status
   was too long" (276): read for every length of the text. *)
OverflowTerminated ==
    IntrusionText /\ Length[args[2]] > MaxLen
        => \A k \in DOMAIN sent : sent[k].text.json
=============================================================================
