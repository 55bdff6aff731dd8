-------------------------- MODULE MCRoomAvailability --------------------------
(***************************************************************************)
(* Two days in ticks of half a minute or of one, in a zone two hours east  *)
(* of UTC: texts at the edges of the rules (opening and closing time, half *)
(* an hour and four hours, a tick more or less), a night, texts that name  *)
(* UTC and one that names another zone.                                    *)
(***************************************************************************)
EXTENDS RoomAnalytics

Local(t) == [digits |-> t, zone |-> <<>>]

Edges == {At(0, 8, 59), At(0, 9, 0), At(0, 9, 0) + 1, At(0, 9, 30),
          At(0, 13, 0), At(0, 13, 0) + 1, At(0, 13, 0) + 2, At(0, 16, 30),
          At(0, 17, 0), At(0, 17, 0) + 1, At(0, 17, 1)}
MCText == {Local(t) : t \in Edges \cup {At(1, 9, 0), At(1, 10, 30)}}
            \cup {toISOString(At(0, h, 0)) : h \in {7, 20}}
            \cup {[digits |-> At(0, 21, 0), zone |-> <<-2 * PerHour>>]}

\* Whole hours
NightText == {Local(t) : t \in {At(0, 9, 0), At(0, 13, 0), At(0, 22, 0), At(1, 1, 0)}}

East == 2 * PerHour
=============================================================================
