---------------------------- MODULE MCImportJobs ----------------------------
(* A small instance of ImportJobs for TLC.                                 *)
EXTENDS ImportJobs, TLC

\* The texts of the sheets below; labels are written in their normal form.
MCRenamed(label, n) == label \o "__" \o ToString(n)
MCColumns == <<"column a", "column b", "column c", "column d">>
MCCells == {"", "list", "name", "phone", "phone__2", "type", "age", "no",
            "n1", "n2", "n3", "p1", "p2", "p3", "1", "2", "vip", "old", "type code"} \cup Range(MCColumns)
MCNormal == [c \in MCCells |-> c]
None8 == [f \in System |-> {}]
MCAliases == [None8 EXCEPT !["fullName"] = {"name"}, !["phone"] = {"phone"},
                           !["attendeeTypeCode"] = {"type code"}]
MCFallbacks == [None8 EXCEPT !["fullName"] = {"name"}, !["phone"] = {"phone"},
                             !["attendeeTypeCode"] = {"type", "type code"}]
MCFields == <<[key |-> "age", labels |-> {"age"}, type |-> "NUMBER", kind |-> None,
               required |-> FALSE, options |-> {}]>>

\* Two lines share a phone, one is blank, two columns share a label.
Repeats == <<<<"list">>, <<"name", "phone", "phone">>,
             <<"n1", "p1", "">>, <<"">>, <<"n2", "p1", "p2">>>>
\* Lines name their type; one has no name, one an age that is none.
Typed == <<<<"name", "type", "age">>, <<"n1", "vip", "1">>, <<"", "", "2">>, <<"n3", "", "old">>>>
\* Phones differ, and a column of numbers has no label.
Plain == <<<<"name", "phone">>, <<"n1", "p1", "1">>, <<"n2", "p3", "2">>>>

Ask(sheet, mapping, kind, duplicates) ==
  [sheet |-> sheet, header |-> 0, start |-> 0, mapping |-> mapping, kind |-> kind,
   duplicates |-> duplicates]
MCUploads ==
  <<Ask(Repeats, <<>>, "t1", "SKIP"),
   Ask(Repeats, "fullName" :> "name" @@ "phone" :> "phone__2", "t1", "FAIL"),
   Ask(Typed, "fullName" :> "name" @@ "attendeeTypeCode" :> "type" @@ "age" :> "age", None, "SKIP"),
   Ask(Plain, <<>>, "t1", "UPDATE_EXISTING"),
   Ask(Plain, <<>>, "t1", "SKIP")>>

Data1(phone, id) == [kind |-> "t1", phone |-> phone, email |-> None, externalId |-> id]
MCForms == {Data1("p1", None), Data1("p2", "2")}
MCEdits == {[phone |-> "p3"], [kind |-> "t2"]}
MCTypeOfCode == [c \in {"vip"} |-> "t2"]
=============================================================================
