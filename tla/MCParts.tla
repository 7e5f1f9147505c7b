------------------------------- MODULE MCParts --------------------------------
(***************************************************************************)
(* Two delegates, so that a detached worker may still be on its way out    *)
(* while the next one is started and stopped.  Three receivers, so that one *)
(* can take the message another was woken for, and three messages, so that  *)
(* the queue is longer than the waiters are.  Skies with no satellite, with *)
(* exactly one sentence of GPS, with the constellations mixed, with more   *)
(* than a GSA holds, and with the highest numbers of a mask and beyond.    *)
(* Two cameras, two algorithms.  Panels that are coarser and finer than the *)
(* service's scale, and the scale itself.                                  *)
(***************************************************************************)
EXTENDS Parts

Sv(c, id, used) == [constellation |-> c, svid |-> id, used |-> used]

SomeSkies ==
    {<<>>,
     [i \in 1 .. 4 |-> Sv("GPS", i, i > 2)],
     [i \in 1 .. 9 |-> Sv(IF i % 3 = 0 THEN "GLONASS" ELSE "GPS", i, i # 4)],
     [i \in 1 .. 14 |-> Sv("GPS", i, TRUE)],
     <<Sv("GPS", 32, FALSE), Sv("GLONASS", 24, TRUE), Sv("GALILEO", 36, TRUE),
       Sv("GPS", 31, TRUE), Sv("GALILEO", 4, FALSE)>>}

Used(gps, glo, gal) ==
    [c \in Constellations |->
        CASE c = "GPS" -> gps [] c = "GLONASS" -> glo [] OTHER -> gal]

SomeFixes ==
    {Used({}, {}, {}), Used(1 .. 13, {3}, {}), Used({4, 32}, {6, 24}, {4}),
     Used({2, 31}, {9}, {36})}
=============================================================================
