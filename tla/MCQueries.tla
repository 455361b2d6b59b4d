------------------------------- MODULE MCQueries -------------------------------
(***************************************************************************)
(* The small catalogs that the questions are asked about.                  *)
(***************************************************************************)
EXTENDS CatalogQueries

Line(part, quantity, spare) == [part |-> part, quantity |-> quantity, spare |-> spare]

(* Three owners that contain each other in any way, themselves included;   *)
(* the third may have no inventory, all others have an older one.          *)
Nested(inside, stocked) ==
  LET Inside(o) == SelectSeq([p \in 1..3 |-> [owner |-> p, quantity |-> inside[o, p]]],
                               LAMBDA item : item.quantity > 0)
      Newest(o) == [owner |-> o, version |-> 2, contains |-> Inside(o),
                    lines |-> <<Line(1, 1, FALSE), Line(o, 2, FALSE), Line(2, 1, TRUE)>>]
      Older(o) == [owner |-> o, version |-> 1, contains |-> <<>>,
                   lines |-> <<Line(3, 5, FALSE)>>]
  IN  [i \in stocked \cup {o + 3 : o \in stocked} |->
         IF i \in stocked THEN Newest(i) ELSE Older(i - 3)]

MCBomQuestions ==
  [catalog : {Nested(inside, stocked) :
                inside \in {f \in [(1..3) \X (1..3) -> 0..2] : \A o \in 1..3 : f[o, o] < 2},
                stocked \in {{1, 2}, {1, 2, 3}}},
   query   : [owner : {1}, spares : BOOLEAN, strict : {FALSE}]
             \cup [owner : {1}, spares : {FALSE}, strict : {TRUE}]]
  \cup [catalog : {Nested([p \in (1..3) \X (1..3) |-> 0], {1})},
        query : [owner : {2}, spares : {TRUE}, strict : BOOLEAN]]

MCUsageQuestions ==
  [catalog : [1..3 -> {[owner |-> o, version |-> v, contains |-> <<>>, lines |-> l] :
                         o \in 1..2, v \in 1..3,
                         l \in {<<Line(1, 1, FALSE)>>, <<Line(1, 2, TRUE), Line(2, 1, FALSE)>>}}],
   owner : {1}, part : {1}]

Relation(type, child, parent) == [type |-> type, child |-> child, parent |-> parent]

MCMoldQuestions ==
  [relations : SUBSET {Relation("mold", p[1], p[2]) : p \in (1..3) \X (1..3)},
   part : 1..3, max_depth : {2, 5}]

(* The graphs on the parts 1 to n, each pair related in at most one way. *)
Graphs(n, types) ==
  LET Pairs == {<<a, b>> \in (1..n) \X (1..n) : a < b}
  IN  {{Relation(f[p], p[1], p[2]) : p \in {q \in Pairs : f[q] # "none"}} :
         f \in [Pairs -> types \cup {"none"}]}

MCSubstituteQuestions ==
  LET Ask(direction, molds, prints, depth, candidates) ==
        [part |-> 2, direction |-> direction, molds |-> molds, prints |-> prints,
         max_depth |-> depth, max_candidates |-> candidates]
  IN  [relations : Graphs(4, {"alternate", "mold", "print"}),
       query     : {Ask("both", TRUE, FALSE, 4, 100), Ask("parents", TRUE, TRUE, 2, 100),
                    Ask("both", FALSE, TRUE, 1, 100), Ask("both", TRUE, FALSE, 2, 1)}]
      \cup [relations : Graphs(5, {"mold"}),
            query     : {Ask("both", TRUE, TRUE, 4, 100), Ask("both", TRUE, TRUE, 4, 3),
                         Ask("children", TRUE, TRUE, 4, 2)}]

MCThemeQuestions == [themes : [1..4 -> {None, 1, 2, 3, 4}], theme : 1..4]

(* Any function from some of the codes, as a set of pairs. *)
Partly(codes, targets) ==
  {{p \in codes \X targets : f[p[1]] = p[2]} : f \in [codes -> targets \cup {None}]}

MCMappingQuestions ==
  LET Pairs == (1..2) \X (1..2)
      PartEvidence ==
        [overrides : Partly(1..2, 1..3), crosswalk : SUBSET Pairs, known : SUBSET (1..2),
         relations : {{}, {Relation("mold", 1, 2)}}]
      ColorEvidence ==
        [overrides : Partly(1..2, 1..2), crosswalk : SUBSET Pairs,
         rgb : SUBSET ({1} \X (1..2)), name : SUBSET ({1} \X (1..2))]
      Items == <<[part |-> 1, color |-> 1, described |-> TRUE],
                 [part |-> 2, color |-> 2, described |-> TRUE],
                 [part |-> 1, color |-> 1, described |-> FALSE]>>
      SomeParts == {[overrides |-> {}, crosswalk |-> {<<2, 1>>, <<2, 2>>},
                     known |-> {1}, relations |-> {}]}
      SomeColors == {[overrides |-> {<<1, 1>>}, crosswalk |-> {}, rgb |-> {}, name |-> {}],
                     [overrides |-> {}, crosswalk |-> {}, rgb |-> {<<1, 1>>, <<1, 2>>},
                      name |-> {<<1, 2>>}]}
  IN  [parts : PartEvidence, colors : SomeColors, items : {Items}]
      \cup [parts : SomeParts, colors : ColorEvidence, items : {Items}]

MCColorQuestions ==
  LET Lines == {<<>>} \cup {<<Line(<<p, 1>>, 1, s)>> : p \in 1..2, s \in BOOLEAN}
      Stocks == {[i \in 1..2 |-> [owner |-> IF i = 1 THEN 1 ELSE second, version |-> i,
                                  contains |-> <<>>,
                                  lines |-> IF i = 1 THEN a ELSE b]] :
                   a \in Lines, b \in Lines, second \in 1..2}
      Ask(p, c, exact) == [pair |-> <<p, c>>, exact |-> exact]
  IN  [catalog : [inventories : Stocks,
                  elements    : SUBSET {[id |-> p, pair |-> <<p, 1>>] : p \in 1..3},
                  years       : {[s \in {1} |-> 2000]},
                  relations   : SUBSET {Relation("mold", 1, 2), Relation("print", 1, 3),
                                        Relation("alternate", 2, 3)}],
       items   : {<<Ask(1, 1, TRUE), Ask(1, None, FALSE), Ask(2, 1, FALSE), Ask(3, 1, TRUE),
                    Ask(1, 1, TRUE)>>}]

MCSearchQuestions ==
  LET Ways == {{}, {"canonical_id", "words"}, {"id_prefix", "name"}, {"words"}}
      Document(k, i, t, y, m) ==
        [kind |-> k, id |-> i, theme |-> t, year |-> y, matches |-> m,
         num_parts |-> IF k = 1 THEN 10 * i ELSE None,
         category |-> IF k = 2 THEN i ELSE None, material |-> IF k = 2 THEN 1 ELSE None]
      Filter(from, to, theme, sub) ==
        [Finder!NoFilters EXCEPT !.year_from = from, !.year_to = to,
                                 !.theme = theme, !.subthemes = sub]
  IN  [themes    : {<<None, 1, 3>>},
       documents : {{Document(1, 1, 1, 2000, a), Document(1, 2, 2, 2010, b),
                     Document(2, 1, None, None, c), Document(2, 3, 3, 2010, {"words"})} :
                      a \in Ways, b \in Ways, c \in Ways},
       query     : [text : BOOLEAN, kinds : {None, {}, {1}, {2}},
                    filters : {Filter(None, None, None, FALSE)}
                              \cup {Filter(2001, None, None, FALSE),
                                    Filter(None, 2005, None, FALSE),
                                    Filter(None, None, 1, FALSE), Filter(None, None, 1, TRUE),
                                    Filter(None, None, None, TRUE)}
                              \cup {[Finder!NoFilters EXCEPT !.min_parts = 10, !.max_parts = 15],
                                    [Finder!NoFilters EXCEPT !.category = 3, !.material = 1]},
                    limit : {0, 1, 2, 1000}, offset : {0, 1, 3}]]

Row(p, c, q) == [part |-> p, color |-> c, quantity |-> q]

SoundRows == {Row(p, c, q) : p \in 1..2, c \in 1..2, q \in 1..2}

MCFileQuestions ==
  LET AnyRows == {Row(p, c, q) : p \in {1, 2, None}, c \in {1, None}, q \in {0, 1, 2, None}}
      Bodies == {<<>>} \cup {<<a>> : a \in AnyRows} \cup {<<a, b>> : a, b \in AnyRows}
                \cup {<<a, b, c>> : a, b, c \in SoundRows}
      Unnamed(rows) == {i \in DOMAIN rows : rows[i].part = None}
      Short == {rows \in Bodies : Unnamed(rows) # {}}
  IN  [format : {"csv"}, systems : {<<"ldraw", "ldraw">>, <<"rebrickable", "ldraw">>},
       header : {Files!Columns, {"part", "color"}}, rows : Bodies, partless : {{}}]
      \cup {[format |-> "csv", systems |-> <<system, "ldraw">>, header |-> Files!Columns,
             rows |-> rows, partless |-> Unnamed(rows)] :
              rows \in Short, system \in {"ldraw", "rebrickable"}}
      \cup [format : {"bricklink_xml", "rebrickable_csv"}, systems : {None},
            header : {Files!Columns}, rows : Bodies, partless : {{}}]

MCDiffQuestions ==
  LET Rows == {[part |-> <<"ldraw", r.part>>, color |-> <<"ldraw", r.color>>,
                quantity |-> r.quantity] : r \in SoundRows}
      Bodies == {<<>>} \cup {<<a>> : a \in Rows} \cup {<<a, b>> : a, b \in Rows}
  IN  [before : Bodies, after : Bodies]

-----------------------------------------------------------------------------
(* A small sound dataset, and what becomes of it when cells change.        *)
Number(n) == <<"int", n>>
Word(w)   == <<"text", w>>
Blank     == <<"empty">>

Base ==
  [themes             |-> <<<<Number(1), Word("n"), Blank>>,
                            <<Number(2), Word("n"), Number(1)>>>>,
   colors             |-> <<<<Number(1), Word("n"), <<"rgb">>, <<"bool", FALSE>>, Number(1),
                              Number(1), Blank, Number(2000)>>>>,
   part_categories    |-> <<<<Number(1), Word("n")>>>>,
   parts              |-> <<<<Word("p"), Word("n"), Number(1), Word("m")>>,
                            <<Word("q"), Word("n"), Number(1), Word("m")>>>>,
   part_relationships |-> <<<<Word("M"), Word("p"), Word("q")>>>>,
   elements           |-> <<<<Word("e"), Word("p"), Number(1), Word("d")>>>>,
   sets               |-> <<<<Word("s"), Word("n"), Number(2000), Number(2), Number(1), Blank>>>>,
   minifigs           |-> <<<<Word("f"), Word("n"), Number(1), Blank>>>>,
   inventories        |-> <<<<Number(1), Number(1), Word("s")>>,
                            <<Number(2), Number(1), Word("f")>>>>,
   inventory_parts    |-> <<<<Number(1), Word("p"), Number(-1), Number(1), <<"bool", FALSE>>,
                              Blank>>>>,
   inventory_sets     |-> <<<<Number(2), Word("s"), Number(1)>>>>,
   inventory_minifigs |-> <<<<Number(1), Word("f"), Number(0)>>>>]

Headed(rows) ==
  [t \in DOMAIN rows |->
     [header |-> [i \in DOMAIN Importer!Columns[t] |-> Importer!Columns[t][i][1]],
      rows   |-> rows[t]]]

Places ==
  UNION {UNION {{<<t, i, c>> : c \in DOMAIN Base[t][i]} : i \in DOMAIN Base[t]} : t \in DOMAIN Base}

Put(rows, place, cell) ==
  [rows EXCEPT ![place[1]] = [@ EXCEPT ![place[2]] = [@ EXCEPT ![place[3]] = cell]]]

MCImportQuestions ==
  LET Wrong == {Number(0), Number(-1), Number(9), Word("p"), Blank, <<"missing">>,
                <<"bool", TRUE>>}
      Once  == {Put(Base, place, cell) : place \in Places, cell \in Wrong}
      Twice == {Put(Put(Base, a, x), b, y) : a \in Places, b \in Places,
                                             x, y \in {Number(2), Blank}}
      Repeated == {[Base EXCEPT ![t] = Append(@, Head(@))] : t \in DOMAIN Base}
      Header(t, header) == [Headed(Base) EXCEPT ![t] = [@ EXCEPT !.header = header]]
  IN  [dataset : {Headed(rows) : rows \in {Base} \cup Once \cup Twice \cup Repeated}
                 \cup {Header("colors", <<"id", "id">>), Header("sets", <<"set_num">>)},
       fault   : {None}]
      \cup [dataset : {Headed(Base)}, fault : {"commit"}]

-----------------------------------------------------------------------------
(* Separate streams, any of them missing or closed, and one shared stream. *)
MCCalls ==
  LET With(call, aliased, absent) ==
        [aliased |-> aliased, absent |-> absent, parser |-> call.parser,
         writes |-> call.writes, error |-> call.error, ends |-> call.ends]
  IN  {With(call, FALSE, absent) : call \in CommandCalls, absent \in SUBSET Roles}
      \cup {With(call, TRUE, absent) : call \in CommandCalls, absent \in {{}, Roles}}

-----------------------------------------------------------------------------
(* The databases that a refresh may find, and every manifest; a pointer    *)
(* that names a snapshot was read when the snapshot was contained.         *)
MCStatusQuestions ==
  LET Plain == {[health |-> h, identity |-> 1, recovers |-> "healthy"] :
                  h \in {"missing", "corrupt", "incompatible", "failing"}}
      Databases == Plain
        \cup {[health |-> "healthy", identity |-> i, recovers |-> "healthy"] : i \in 1..2}
        \cup {[health |-> "hot", identity |-> i, recovers |-> h] :
                i \in 1..2, h \in {"healthy", "corrupt", "failing"}}
      Manifests == [file   : {"sound", "invalid", "missing", "special", "failing"},
                    schema : {"supported", "other"}, identity : {None, 1}]
  IN  {c \in [pointer   : {"none", "failing", "oversized", "invalid", "escaping", "snapshot"},
               contained : BOOLEAN, manifest : Manifests, before : Databases,
               after : Databases, edit : 2..5] :
         c.pointer = "snapshot" => c.contained}
================================================================================
