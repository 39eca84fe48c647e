----------------------------- MODULE RangeBias -----------------------------
(***************************************************************************)
(* The correction of a measured distance: dwt_getrangebias looks the       *)
(* distance up in the table of its channel and PRF, and the index found is *)
(* the correction, one centimetre more for each entry.  Distances are in   *)
(* units of 25 cm, corrections in cm.  The loop has no bound of its own.   *)
(***************************************************************************)
EXTENDS Integers, Sequences

UwbChannels == {1, 2, 3, 4, 5, 7}
WideBand == {4, 7}
Prfs == {1, 2}  \* DWT_PRF_16M, DWT_PRF_64M

\* For channels 1, 2, 3 and 5, and for 4 and 7.
range25cm16PRFnb == <<
  <<1, 3, 4, 5, 7, 9, 11, 12, 13, 15, 18, 20, 23, 25, 28, 30, 33, 36, 40, 43, 47, 50,
    54, 58, 63, 66, 71, 76, 82, 89, 98, 109, 127, 155, 222, 255, 255>>,
  <<1, 2, 4, 5, 6, 8, 9, 10, 12, 13, 15, 18, 20, 22, 24, 27, 29, 32, 35, 38, 41, 44,
    47, 51, 55, 58, 62, 66, 71, 78, 85, 96, 111, 135, 194, 240, 255>>,
  <<1, 2, 3, 4, 5, 7, 8, 9, 10, 12, 14, 16, 18, 20, 22, 24, 26, 28, 31, 33, 36, 39,
    42, 45, 49, 52, 55, 59, 63, 69, 76, 85, 98, 120, 173, 213, 255>>,
  <<1, 1, 2, 3, 4, 5, 6, 6, 7, 8, 9, 11, 12, 14, 15, 16, 18, 20, 21, 23, 25, 27, 29,
    31, 34, 36, 38, 41, 44, 48, 53, 59, 68, 83, 120, 148, 255>> >>

range25cm16PRFwb == <<
  <<7, 7, 8, 9, 9, 10, 11, 11, 12, 13, 14, 15, 16, 17, 18, 19, 20, 21, 22, 23, 24, 26,
    27, 28, 30, 31, 32, 34, 36, 38, 40, 42, 44, 46, 48, 50, 52, 55, 57, 59, 61, 63,
    66, 68, 71, 74, 78, 81, 85, 89, 94, 99, 104, 110, 116, 123, 130, 139, 150, 164,
    182, 207, 238, 255, 255, 255, 255, 255>>,
  <<4, 5, 5, 5, 6, 6, 7, 7, 7, 8, 9, 9, 10, 10, 11, 11, 12, 13, 13, 14, 15, 16, 17,
    17, 18, 19, 20, 21, 22, 23, 25, 26, 27, 29, 30, 31, 32, 34, 35, 36, 38, 39, 40,
    42, 44, 46, 48, 50, 52, 55, 58, 61, 64, 68, 72, 75, 80, 85, 92, 101, 112, 127,
    147, 168, 182, 194, 205, 255>> >>

range25cm64PRFnb == <<
  <<1, 2, 2, 3, 4, 5, 7, 10, 13, 16, 19, 22, 24, 27, 30, 32, 35, 38, 43, 48, 56, 78,
    101, 120, 157, 255>>,
  <<1, 2, 2, 3, 4, 4, 6, 9, 12, 14, 17, 19, 21, 24, 26, 28, 31, 33, 37, 42, 49, 68,
    89, 105, 138, 255>>,
  <<1, 1, 2, 3, 3, 4, 5, 8, 10, 13, 15, 17, 19, 21, 23, 25, 27, 30, 33, 37, 44, 60,
    79, 93, 122, 255>>,
  <<1, 1, 1, 2, 2, 3, 4, 6, 7, 9, 10, 12, 13, 15, 16, 17, 19, 21, 23, 26, 30, 42, 55,
    65, 85, 255>> >>

range25cm64PRFwb == <<
  <<7, 8, 8, 9, 9, 10, 11, 12, 13, 13, 14, 15, 16, 16, 17, 18, 19, 19, 20, 21, 22, 24,
    25, 27, 28, 29, 30, 32, 33, 34, 35, 37, 39, 41, 43, 45, 48, 50, 53, 56, 60, 64,
    68, 74, 81, 89, 98, 109, 122, 136, 146, 154, 162, 178, 220, 249, 255, 255, 255>>,
  <<4, 5, 5, 5, 6, 6, 7, 7, 8, 8, 9, 9, 10, 10, 10, 11, 11, 12, 13, 13, 14, 15, 16,
    16, 17, 18, 19, 19, 20, 21, 22, 23, 24, 25, 26, 28, 29, 31, 33, 35, 37, 39, 42,
    46, 50, 54, 60, 67, 75, 83, 90, 95, 100, 110, 135, 153, 172, 192, 255>> >>

CM_OFFSET_16M_NB == -23
CM_OFFSET_16M_WB == -28
CM_OFFSET_64M_NB == -17
CM_OFFSET_64M_WB == -30

\* The rows of the tables, of channels 0 .. 7 and counted from 0.
chan_idxnb == <<0, 0, 1, 2, 0, 3, 0, 0>>
chan_idxwb == <<0, 0, 0, 0, 0, 0, 0, 1>>

Table(chan, prf) ==
  IF chan \in WideBand
  THEN (IF prf = 1 THEN range25cm16PRFwb ELSE range25cm64PRFwb)[chan_idxwb[chan + 1] + 1]
  ELSE (IF prf = 1 THEN range25cm16PRFnb ELSE range25cm64PRFnb)[chan_idxnb[chan + 1] + 1]

Offset(chan, prf) ==
  IF chan \in WideBand
  THEN (IF prf = 1 THEN CM_OFFSET_16M_WB ELSE CM_OFFSET_64M_WB)
  ELSE (IF prf = 1 THEN CM_OFFSET_16M_NB ELSE CM_OFFSET_64M_NB)

\* "make sure it matches largest value in table (all tables end in 255 !!!!)".
Capped(rangeint25cm) == IF rangeint25cm > 255 THEN 255 ELSE rangeint25cm

\* The loop stands at the first entry that is not below the distance.
StopsAt(table, r, i) ==
  /\ i \in 0 .. Len(table) - 1 /\ r <= table[i + 1]
  /\ \A k \in 0 .. i - 1 : r > table[k + 1]

LoopIndex(table, r) == CHOOSE i \in 0 .. Len(table) - 1 : StopsAt(table, r, i)

dwt_getrangebias(chan, rangeint25cm, prf) ==
  LoopIndex(Table(chan, prf), Capped(rangeint25cm)) + Offset(chan, prf)

\* "each MUST END IN 255".
ASSUME TablesAssumption ==
  \A chan \in UwbChannels, prf \in Prfs :
    LET table == Table(chan, prf) IN
      /\ table \in Seq(Nat) /\ Len(table) > 0 /\ table[Len(table)] = 255
      /\ \A k \in 1 .. Len(table) : \A m \in k .. Len(table) : table[k] <= table[m]
=============================================================================
