---------------------------- MODULE MCEventSender ----------------------------
(* Bounds for EventSender: texts at the limits of the payload buffer, which is
   shrunk to 8 characters, and of a 5-bit "unsigned short"; every event name with
   as many arguments as any form takes. *)
EXTENDS EventSender

MCMaxLen == 8
MCShortSize == 32

MCLength ==
    [empty |-> 0, true |-> 4, usb |-> 7, fits |-> MCMaxLen, cut |-> MCMaxLen + 1,
     wrapped |-> MCShortSize + 3]

MCWords == DOMAIN MCLength
MCPieces == [MCLength EXCEPT !.empty = 0, !.true = 1, !.usb = 4, !.fits = 1, !.cut = 1,
                               !.wrapped = 1]
MCTerminated == {"fits", "cut", "wrapped"}

Lines(names, words, n) ==
    [name : names, exact : {TRUE}, args : [1 .. n -> words]]

StatusNames == {"IpmodeEvent", "usbdetected", "EISSFilterEvent", "MaintenanceMGR",
                "WiFiInterfaceStateEvent", "AppDownloadEvent", "Unknown"}
PayloadNames == DOMAIN PayloadIf \cup {"Unknown"}
FormNames == {"CustomEvent", "USBMountChangedEvent", "usbdetected", "EISSAppIdEvent",
              "IntrusionEvent"}

MCCommandLines ==
    Lines({None}, MCWords, 0)
        \cup Lines(StatusNames, {"true"}, 1)
        \cup Lines(PayloadNames, MCWords, 2)
        \cup Lines(FormNames, {"empty", "true", "usb"}, 3)
        \cup Lines({"usbdetected"}, {"empty", "true", "usb"}, 4)
        \cup Lines(FormNames, {"true"}, 4)
        \cup Lines(FormNames, {"true"}, 5)
        \cup [name : FormNames, exact : {FALSE}, args : [1 .. 4 -> {"true"}]]
        \cup [name : {"USBMountChangedEvent"}, exact : {FALSE}, args : [1 .. 3 -> {"true"}]]
        \cup UNION {Lines(DSMgrNames, {"true", "usb"}, n) : n \in 0 .. 4}
=============================================================================
