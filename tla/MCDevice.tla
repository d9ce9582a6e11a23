------------------------------ MODULE MCDevice ------------------------------
(* Small instances of Gate: two units of every board, and hardware in      *)
(* which each source may be there, be silent, or be somewhere else.        *)
EXTENDS Gate

Units == {1, 2}

MCDomain == <<1>>

(* What a vendor's own HAL may answer.                                     *)
Odd == {Data(<<>>), Data(<<2>>), Data(<<1, 2>>), Platform,
        [st |-> "OK", len |-> SegMax + 1, bytes |-> <<>>]}

Lists == {<<>>, <<"usb0">>, <<"docker0", "usb0">>, <<"usb0", "wlan0", "eth0">>,
          <<"tun0", "dummy0", "en0", "usb0">>}

MCHardware(b) ==
  CASE b = "linux" ->
         {[Bare EXCEPT !.unit = u, !.up = l, !.serial = "cpuinfo"] : u \in Units, l \in Lists}
         \cup {[Bare EXCEPT !.unit = u, !.up = <<"wlan0">>, !.machine = m, !.serial = s] :
                 u \in Units, m \in {"etc", "dbus", "long", "gone"}, s \in {"uuid", "none"}}
    [] b = "macos" ->
         {[Bare EXCEPT !.unit = u, !.up = l, !.serial = s] :
            u \in Units, l \in Lists, s \in {"uuid", "none"}}
    [] b = "esp32" ->
         {[Bare EXCEPT !.unit = u, !.uid = a, !.flash = f] :
            u \in Units, a \in {"ok", "error"}, f \in Answer}
    [] b \in {"rp2040", "stm32", "nxp"} ->
         {[Bare EXCEPT !.unit = u, !.uid = a] : u \in Units, a \in {"ok", "zeros", "ones"}}
    [] b = "gate" ->
         {[Bare EXCEPT !.unit = u, !.uid = a, !.page = p] :
            u \in Units, a \in {"ok", "zeros"}, p \in {"blank", "written"}}
    [] b = "ported" ->
         {[Bare EXCEPT !.answers = a, !.endless = e] :
            a \in {<<>>} \cup {<<x>> : x \in Odd} \cup {<<x, y>> : x \in {Data(<<>>), Data(<<2>>)}, y \in Odd},
            e \in BOOLEAN}
    [] OTHER -> {Bare}

MCIfaces == {"", "wlan0", "dummy0"} \cup UNION {{l[i] : i \in DOMAIN l} : l \in Lists}

MCPins(b) == IF b \in {"linux", "macos"} THEN {"", "wlan0", "dummy0"} ELSE {""}
=============================================================================
