------------------------------ MODULE MCFields ------------------------------
EXTENDS Fields

Str(s) == IF s = "" THEN <<>> ELSE <<s>>
P(id, s) == IF s = <<>> THEN <<>> ELSE <<Prop(id, s, NoSub)>>

MCTypeOf == [t \in {"name", "adr", "tel", "mail", "note", "cat"} |-> "VCARD"]
  @@ [t \in {"alarm", "rule", "time", "text"} |-> "VEVENT"]
  @@ [t \in {"dates", "state"} |-> "VTODO"] @@ ("memo" :> "VMEMO")

(* what every record has                                                   *)
Name  == [LastName |-> <<"Ng">>, Category |-> <<"Unfiled">>]
Event == [Subject |-> <<"S">>, StartDate |-> <<8>>, StartTime |-> <<600, 0>>,
          EndDate |-> <<8>>, EndTime |-> <<660, 0>>]
Todo  == [Subject |-> <<"S">>, StartDate |-> <<"d1">>, EndDate |-> <<"d1">>,
          Category |-> <<"Unfiled">>]
N(g, f) == <<Prop("N", <<>>, [k \in (IF g = "" THEN {} ELSE {"GIVEN"})
                                 \cup (IF f = "" THEN {} ELSE {"FAMILY"})
                              |-> <<IF k = "GIVEN" THEN g ELSE f>>])>>
Tel(s, types) == <<Prop("TEL", <<s>>, [k \in types |-> <<>>])>>
Mail(s) == IF s = "" THEN <<>> ELSE <<Prop("EMAIL", <<s>>, NoSub)>>
Alarm(id, t) == IF t = 0 THEN <<>> ELSE <<Prop(id, <<>>, "RUNTIME" :> <<t, 0>>)>>
Start == <<Prop("DTSTART", <<8 * Day + 600, 0>>, NoSub)>>
VDates == <<Prop("DUE", <<"d1", "T0000">>, NoSub), Prop("DTSTART", <<"d1", "T0000">>, NoSub)>>

MCIc35Input ==
  ("name" :> {[FirstName |-> Str(g), LastName |-> Str(f)] @@ Name :
                g \in {"", "Ann", "Bob"}, f \in {"Ng", "Ann"}}) @@
  ("adr" :> {[City |-> Str(c), Company |-> Str(o)] @@ Name : c \in {"", "c1"}, o \in {"", "o1"}}) @@
  ("tel" :> {[TelHome |-> Str(h), TelWork |-> <<"3">>, TelFax |-> Str(f)] @@ Name :
                h \in {"", "2"}, f \in {"", "4"}}) @@
  ("mail" :> {[Email1 |-> Str(m[1]), Email2 |-> Str(m[2]), URL |-> Str(u)] @@ Name :
                m \in {<<"m3", "">>, <<"m3", "m2">>, <<"", "m2">>}, u \in {"", "u"}}) @@
  ("note" :> {[Def1 |-> Str(a), Def2 |-> Str(b), Notes |-> n] @@ Name :
                a \in {"", "y"}, b \in {"", "z"}, n \in {<<>>, <<"t", "CR", "NL", "u">>}}) @@
  ("cat" :> {[Category |-> <<c>>] @@ Name : c \in {"Unfiled", "Business", "Own"}}) @@
  ("alarm" :> {[AlarmBefore |-> <<b>>, Alarm_Repeat |-> <<a>>] @@ Event :
                b \in {0, 1, 9}, a \in {0, 64, 128}}) @@
  ("rule" :> {[Alarm_Repeat |-> <<192 + r>>, RepCount |-> <<1>>, RepEndDate |-> e] @@ Event :
                r \in {0, 1, 2}, e \in {<<9>>, <<10>>}}) @@
  ("time" :> {[StartTime |-> s, EndTime |-> e] @@ Event :
                s \in {<<600, 0>>, <<600, Strange>>}, e \in {<<660, 0>>, <<0, Strange>>}}) @@
  ("text" :> {[Notes |-> n] @@ Event : n \in {<<>>, <<"t">>, <<"t", "CR", "NL", "u">>}}) @@
  ("dates" :> {[StartDate |-> <<s>>, EndDate |-> <<e>>, Category |-> <<c>>, Notes |-> <<"t">>] @@ Todo :
                s \in {"d1", "d2"}, e \in {"d2"}, c \in {"Unfiled", "Own"}}) @@
  ("state" :> {[Completed |-> <<p % 2>>, Priority |-> <<p>>, Notes |-> <<"t">>] @@ Todo :
                p \in 0 .. 2}) @@
  ("memo" :> {[Subject |-> Str(s), Notes |-> n, Category |-> <<c>>] :
                s \in {"S"}, n \in {<<>>, <<"t">>, <<"CR", "NL", "u">>},
                c \in {"Unfiled", "Own"}})

Photo == P("PHOTO", <<"jpg">>)
MCPimInput ==
  ("name" :> {n \o P("FN", fn) \o Photo :
                n \in {<<>>, N("Ann", "Ng"), N("", "Ng"), N("Bob", "")},
                fn \in {<<>>, <<"Ann", " ", "Ng">>, <<"Dr", " ", "Ng">>}}) @@
  ("adr" :> {N("", "Ng") \o a \o o : a \in {<<>>,
                <<Prop("ADR", <<>>, ("CITY" :> <<"c1">>))>>,
                <<Prop("ADR", <<>>, ("CITY" :> <<"c2">>) @@ ("POSTBOX" :> <<"b">>))>>},
                o \in {<<>>, <<Prop("ORG", <<>>, ("ORGNAME" :> <<"o2">>) @@ ("UNIT" :> <<"x">>))>>}}) @@
  ("tel" :> {N("", "Ng") \o h \o w :
                h \in {<<>>, Tel("1", {"HOME"}), Tel("1", {"HOME", "FAX"}), Tel("5", {})},
                w \in {<<>>, Tel("3", {"WORK"}), Tel("6", {"HOME"})}}
            \cup {N("", "Ng") \o Tel("5", {}) \o P("CATEGORIES", <<"Business">>)}) @@
  ("mail" :> {N("", "Ng") \o Mail(a) \o Mail(b) \o P("URL", <<"u">>) :
                a \in {"", "m1"}, b \in {"", "m2"}}
            \cup {Mail("m1") \o Mail("m2") \o n \o P("URL", <<"u">>) :
                 n \in {N("", "Ng"), N("", "Ng") \o Mail("m4")}}) @@
  ("note" :> {N("", "Ng") \o P("NOTE", n) :
                n \in {<<>>, <<"t">>, <<"NL", "t", "NL">>, <<"DEF1:", "x", "NL", "t">>,
                       <<"DEF1:", "x", "NL", "DEF2:", "z", "NL">>, <<"DEF1:", "x">>,
                       <<"t", "NL", "DEF1:", "y", "NL">>, <<"t", "t", "t", "t", "t", "t", "t">>}}) @@
  ("cat" :> {N("", "Ng") \o P("CATEGORIES", c) :
                c \in {<<>>, <<"Own">>, <<"Business">>, <<"X", ";", "Own">>,
                       <<"X", ";", "Business", ";", "Personal">>}}) @@
  ("alarm" :> {Start \o Alarm("AALARM", a) \o Alarm("DALARM", d) :
                a \in {0, 8 * Day + 593, 8 * Day + 600, 8 * Day + 610},
                d \in {0, 8 * Day + 595, 7 * Day}}) @@
  ("rule" :> {Start \o P("RRULE", r) :
                r \in {<<>>, <<"D", 1, {}, <<9>>>>, <<"D", 1, {}, <<>>>>, <<"W", 1, {1, 3}, <<9>>>>,
                       <<"W", 1, {1}, <<10>>>>, <<"MD", 1, {}, <<>>>>}}) @@
  ("time" :> {Start \o P("DTEND", e) : e \in {<<>>, <<8 * Day + 660, 0>>, <<9 * Day, 30>>}}) @@
  ("text" :> {Start \o P("SUMMARY", s) \o P("DESCRIPTION", d) :
                s \in {<<>>, <<"S">>, <<"S", "NL", "t">>},
                d \in {<<>>, <<"t">>, <<"t", "NL", "u">>}}) @@
  ("dates" :> {s \o d \o P("DESCRIPTION", n) :
                s \in {<<>>, <<VDates[2]>>}, d \in {<<>>, <<VDates[1]>>},
                n \in {<<"t">>, <<"DTSTART:", "d1", "NL", "DUE:", "d2", "NL", "CATEGORIES:", "Own", "NL", "t">>}}) @@
  ("state" :> {VDates \o P("STATUS", s) \o P("DESCRIPTION", <<"t">>) :
                s \in {<<>>, <<"COMPLETED">>, <<"NEEDS ACTION">>, <<"SENT">>}}
            \cup {VDates \o P("PRIORITY", <<p>>) : p \in {0, 2, 4, 6}}) @@
  ("memo" :> {P("SUMMARY", s) \o P("NOTE", n) \o P("CATEGORIES", c) :
                s \in {<<>>, <<"S">>}, n \in {<<>>, <<"t", "NL", "u">>},
                c \in {<<>>, <<"Own">>, <<"X", ";", "Business">>}})
=============================================================================
