--------------------------------- MODULE Nmea ---------------------------------
(***************************************************************************)
(* The satellites of a session as the framework and NMEA see them          *)
(* (loc_eng_nmea.cpp, LocEngReportSv::proc(), the used satellites that the  *)
(* adapter keeps).  A position names the satellites its fix used; the       *)
(* next report of satellites is flagged by it; that report is split into    *)
(* sentences and leaves masks from which the next position writes the       *)
(* active satellites, once.                                                *)
(*                                                                         *)
(* A sentence is what it lists and announces: coordinates, times and       *)
(* checksums are left out.  A mask of 32 bits is the set of its satellites. *)
(* The framework stops a session before it starts another one; a restart   *)
(* of the modem starts the session again.  A report is handled whenever it *)
(* comes: one that was queued before a stop is handled after it.           *)
(***************************************************************************)
EXTENDS Integers, Sequences, FiniteSets

CONSTANTS
    Skies,          \* the lists of satellites the modem may report
    Fixes           \* the satellites a fix may use, by constellation

Constellations == {"GPS", "GLONASS", "GALILEO"}

(* The numbers of GPS and GLONASS are the bits of a mask of 32: those of    *)
(* GLONASS are without the 64 that NMEA adds                               *)
SvIds(c) == IF c = "GALILEO" THEN 1 .. 63 ELSE 1 .. 32

Satellites ==
    UNION {[constellation : {c}, svid : SvIds(c), used : BOOLEAN] : c \in Constellations}

ASSUME NmeaAssumption ==
    /\ \A sky \in Skies : sky \in Seq(Satellites)
    /\ \A used \in Fixes :
         /\ DOMAIN used = Constellations
         /\ \A c \in Constellations : used[c] \subseteq SvIds(c)

VARIABLES
    started,        \* external: the framework's session, until it stops it
    mNavigating,
    recurrence,     \* of the session: single or periodic
    mode,           \* mFixCriteria.mode
    mGnssSvIdUsedInPosAvail,
    mGnssSvIdUsedInPosition,
    gps_used_mask,
    glo_used_mask,
    dop,            \* pdop, hdop, vdop hold those of a report of satellites
    sentences,      \* the sentences of the last report
    shown,          \* the satellites of the last report, as the framework got them
    fix             \* history: what the last fix handled since the last stop used:
                    \* Nothing or one

sessionVars == <<started, mNavigating, recurrence, mode>>
usedVars == <<mGnssSvIdUsedInPosAvail, mGnssSvIdUsedInPosition>>
maskVars == <<gps_used_mask, glo_used_mask>>
nmeaVars == <<sessionVars, usedVars, maskVars, dop, sentences, shown, fix>>

NoneUsed == [c \in Constellations |-> {}]
Nothing == <<>>
PerSentence == 4            \* satellites in one GSV
Active == 12                \* satellites in one GSA
GLONASS_SV_ID_OFFSET == 64

NmeaInit ==
    /\ started = FALSE /\ mNavigating = FALSE /\ recurrence = "periodic" /\ mode = "INVALID"
    /\ mGnssSvIdUsedInPosAvail = FALSE /\ mGnssSvIdUsedInPosition = NoneUsed
    /\ gps_used_mask = {} /\ glo_used_mask = {}
    /\ dop = FALSE
    /\ sentences = <<>> /\ shown = <<>> /\ fix = Nothing

-----------------------------------------------------------------------------
(* A session; the modem may refuse it                                      *)

StartFix ==
    /\ ~started
    /\ started' = TRUE /\ mNavigating' \in BOOLEAN
    /\ recurrence' \in {"single", "periodic"}
    /\ mode' \in {"STANDALONE", "MS_BASED"}
    /\ sentences' = <<>> /\ shown' = <<>>
    /\ UNCHANGED <<usedVars, maskVars, dop, fix>>

clearGnssSvUsedListData ==
    mGnssSvIdUsedInPosAvail' = FALSE /\ mGnssSvIdUsedInPosition' = NoneUsed

StopKeepsUsed ==
    /\ started' = FALSE /\ mNavigating' = FALSE /\ mode' = "INVALID"
    /\ fix' = Nothing
    /\ sentences' = <<>> /\ shown' = <<>>
    /\ UNCHANGED <<recurrence, usedVars, maskVars, dop>>

LocEngStopFix ==
    /\ clearGnssSvUsedListData
    /\ started' = FALSE /\ mNavigating' = FALSE /\ mode' = "INVALID"
    /\ fix' = Nothing
    /\ sentences' = <<>> /\ shown' = <<>>
    /\ UNCHANGED <<recurrence, maskVars, dop>>

(* The session is ended and started again without its mode *)
LocEngUp ==
    /\ mNavigating
    /\ mode' = "INVALID"
    /\ UNCHANGED <<started, mNavigating, recurrence, usedVars, maskVars, dop, sentences,
                   shown, fix>>

-----------------------------------------------------------------------------
(* A report of satellites                                                  *)

(* The bits of the mask of 64 that 1 << (svid - 1) tests.  The constant is *)
(* an int: bit 31 is extended to the 32 bits above, and a shift of 32 or   *)
(* more, undefined, gives nothing or the shift modulo 32                   *)
Bit(n) == IF n = 32 THEN 32 .. 64 ELSE {n}

Tested(svid, lost) ==
    IF svid <= 32 THEN Bit(svid) ELSE IF lost THEN {} ELSE Bit(svid - 32)

(* lost: the satellites whose shift gives nothing *)
UsedFlags(sky) ==
    IF ~mGnssSvIdUsedInPosAvail THEN {sky}
    ELSE {[i \in DOMAIN sky |->
             [sky[i] EXCEPT !.used =
                mGnssSvIdUsedInPosition[sky[i].constellation]
                    \cap Tested(sky[i].svid, i \in lost) # {}]] :
          lost \in SUBSET {i \in DOMAIN sky : sky[i].svid > 32}}

(* The numbers of a set, the least first; and what a list has at them      *)
Nth(S, n) == CHOOSE i \in S : Cardinality({j \in S : j <= i}) = n
Select(list, S) == [n \in 1 .. Cardinality(S) |-> list[Nth(S, n)]]

PlacesOf(svs, c) == {i \in DOMAIN svs : svs[i].constellation = c}

Of(svs, c) == Select(svs, PlacesOf(svs, c))

UsedMask(svs, c) == {svs[i].svid : i \in {j \in PlacesOf(svs, c) : svs[j].used}}

AtMost(most, n) == IF n < most THEN n ELSE most

SentenceCountRoundsUp(n) == n \div PerSentence + 1

SentenceCount(n) == n \div PerSentence + (IF n % PerSentence # 0 THEN 1 ELSE 0)

Unlisted(svs, c, stop) == {i \in PlacesOf(svs, c) : i > stop}

(* The loop of a sentence goes on where that of the one before it stopped, *)
(* passes over the other constellations, and ends with the fourth          *)
StopAfter(svs, c, stop) ==
    LET left == Unlisted(svs, c, stop)
    IN IF Cardinality(left) < PerSentence THEN Len(svs) ELSE Nth(left, PerSentence)

Stops(svs, c) ==
    LET stops[number \in 0 .. SentenceCount(Len(Of(svs, c)))] ==
            IF number = 0 THEN 0 ELSE StopAfter(svs, c, stops[number - 1])
    IN stops

GsvSentence(svs, c, number, count, total) ==
    LET left == Unlisted(svs, c, Stops(svs, c)[number - 1])
    IN [name |-> "GSV", of |-> c, count |-> count, number |-> number, total |-> total,
        svs |-> [n \in 1 .. AtMost(PerSentence, Cardinality(left)) |-> svs[Nth(left, n)].svid]]

(* One that is blank when there is no satellite                            *)
Gsv(svs, c) ==
    LET total == Len(Of(svs, c))
        count == IF total = 0 THEN 1 ELSE SentenceCount(total)
    IN [number \in 1 .. count |-> GsvSentence(svs, c, number, count, total)]

generate_sv(svs, extended) ==
    /\ gps_used_mask' = UsedMask(svs, "GPS")
    /\ glo_used_mask' = UsedMask(svs, "GLONASS")
    /\ sentences' = Gsv(svs, "GPS") \o Gsv(svs, "GLONASS")
    /\ dop' = extended

LocEngReportSv(sky, extended) ==
    /\ shown' \in UsedFlags(sky)
    /\ generate_sv(shown', extended)
    /\ UNCHANGED <<sessionVars, usedVars, fix>>

-----------------------------------------------------------------------------
(* A report of a position                                                  *)

FixType(n) == IF n = 0 THEN 1 ELSE IF n <= 3 THEN 2 ELSE 3

(* The first twelve, in the order of their numbers *)
Gsa(name, used, offset, dops) ==
    [name |-> name, fix |-> FixType(Cardinality(used)), dop |-> dops,
     svs |-> [n \in 1 .. AtMost(Active, Cardinality(used)) |-> Nth(used, n) + offset]]

(* N without coordinates, A for autonomous, D for differential *)
Indicator(latlong) ==
    IF ~latlong THEN "N" ELSE IF mode = "STANDALONE" THEN "A" ELSE "D"

Vtg(latlong) == [name |-> "GPVTG", mode |-> Indicator(latlong)]

(* The status is valid whether or not there are coordinates *)
Rmc(latlong) == [name |-> "GPRMC", status |-> "A", mode |-> Indicator(latlong)]

Gga(latlong, used, dops) ==
    [name |-> "GPGGA",
     quality |-> IF ~latlong THEN 0 ELSE IF mode = "STANDALONE" THEN 1 ELSE 2,
     used |-> Cardinality(used), dop |-> dops]

WithFix(latlong, dops) ==
    <<Gsa("GPGSA", gps_used_mask, 0, dops),
      Gsa("GNGSA", glo_used_mask, GLONASS_SV_ID_OFFSET, dops),
      Vtg(latlong), Rmc(latlong), Gga(latlong, gps_used_mask, dops)>>

WithoutFix ==
    <<Gsa("GPGSA", {}, 0, FALSE), Gsa("GNGSA", {}, 0, FALSE), Vtg(FALSE),
      [Rmc(FALSE) EXCEPT !.status = "V"], Gga(FALSE, {}, FALSE)>>

(* A report that is no fix leaves the masks alone *)
generate_pos(generate, latlong, extended) ==
    /\ sentences' = IF generate THEN WithFix(latlong, extended \/ dop) ELSE WithoutFix
    /\ IF generate THEN gps_used_mask' = {} /\ glo_used_mask' = {}
       ELSE UNCHANGED maskVars
    /\ dop' = FALSE

setGnssSvUsedListData(used) ==
    mGnssSvIdUsedInPosAvail' = TRUE /\ mGnssSvIdUsedInPosition' = used

(* The fix that ends a single session writes no sentence, nor does one that *)
(* is handled while there is no session; but the satellites it used are kept *)
LocEngReportPosition(accepted, failed, used, latlong, extended) ==
    LET ends == (accepted \/ failed) /\ recurrence = "single"
    IN /\ mNavigating' = (mNavigating /\ ~ends)
       /\ mode' = IF ends THEN "INVALID" ELSE mode
       /\ IF accepted /\ used # Nothing
            THEN setGnssSvUsedListData(Head(used)) /\ fix' = used
            ELSE UNCHANGED <<usedVars, fix>>
       /\ IF mNavigating'
            THEN generate_pos(accepted, latlong, extended)
            ELSE sentences' = <<>> /\ UNCHANGED <<maskVars, dop>>
       /\ shown' = <<>>
       /\ UNCHANGED <<started, recurrence>>

NmeaNext ==
    \/ StartFix
    \/ LocEngStopFix
    \/ LocEngUp
    \/ \E sky \in Skies, extended \in BOOLEAN : LocEngReportSv(sky, extended)
    \/ \E extended \in BOOLEAN :
         \/ \E used \in {<<f>> : f \in Fixes} \cup {Nothing}, latlong \in BOOLEAN :
              LocEngReportPosition(TRUE, FALSE, used, latlong, extended)
         \/ \E failed \in BOOLEAN :
              LocEngReportPosition(FALSE, failed, Nothing, FALSE, extended)

NmeaSpec == NmeaInit /\ [][NmeaNext]_nmeaVars

-----------------------------------------------------------------------------
(* The sentences of a constellation list each of its satellites            *)
Lists(gsv, own) ==
    /\ gsv # <<>> /\ Len(own) <= PerSentence * Len(gsv)
    /\ \A i \in DOMAIN gsv :
         LET before == PerSentence * (i - 1)
         IN /\ gsv[i].number = i /\ gsv[i].count = Len(gsv) /\ gsv[i].total = Len(own)
            /\ Len(gsv[i].svs) = AtMost(PerSentence, Len(own) - before)
            /\ gsv[i].svs = <<>> => own = <<>>
            /\ \A n \in DOMAIN gsv[i].svs : gsv[i].svs[n] = own[before + n].svid

(* The sentences of a report of satellites list each satellite of GPS and *)
(* GLONASS exactly once and in order, at most four in a sentence and none   *)
(* in vain, numbered from one to the count each of them announces, however  *)
(* the constellations are mixed in the list (loc_eng_nmea_generate_sv())    *)
GsvComplete ==
    shown # <<>> =>
        \A c \in {"GPS", "GLONASS"} :
            Lists(Select(sentences, {i \in DOMAIN sentences : sentences[i].of = c}),
                  Of(shown, c))

(* A satellite of GPS or GLONASS, the highest bits of a mask included, is   *)
(* flagged as used exactly when the last fix handled since the last stop    *)
(* used it, and by the modem's own flag when none was: a stop forgets the   *)
(* fixes of its session, but for one that is still queued then, which is    *)
(* taken for the next session's until that has a fix of its own            *)
(* (LocEngReportSv::proc(), clearGnssSvUsedListData())                      *)
UsedFollowsFix ==
    \A i \in DOMAIN shown :
        shown[i].constellation # "GALILEO" =>
            IF fix = Nothing
            THEN shown \in Skies
            ELSE shown[i].used <=> shown[i].svid \in Head(fix)[shown[i].constellation]

(* The sentences of a position say the same: what VTG and RMC call no fix, *)
(* autonomous or differential is quality 0, 1 or 2 for GGA, which counts    *)
(* the satellites GPGSA lists, as many as have room; all have a dilution of *)
(* precision or none has, and a sentence that finds no satellite has no fix *)
(* (loc_eng_nmea_generate_pos())                                            *)
SentencesAgree ==
    sentences # <<>> /\ sentences[1].name = "GPGSA" =>
        LET gsa == sentences[1]
            glo == sentences[2]
            gga == sentences[5]
        IN /\ sentences[3].mode = sentences[4].mode
           /\ gga.quality = CASE sentences[4].mode = "N" -> 0
                              [] sentences[4].mode = "A" -> 1
                              [] OTHER -> 2
           /\ Len(gsa.svs) = AtMost(Active, gga.used)
           /\ gga.dop = gsa.dop /\ glo.dop = gsa.dop
           /\ \A s \in {gsa, glo} : s.fix = 1 <=> s.svs = <<>>
           /\ \A i \in DOMAIN gsa.svs, j \in DOMAIN glo.svs : gsa.svs[i] < glo.svs[j]

(* Whichever report they are of, the sentences are complete and agree      *)
(* (loc_eng_nmea_generate_sv(), loc_eng_nmea_generate_pos())               *)
SentencesComplete == GsvComplete /\ SentencesAgree
=============================================================================
