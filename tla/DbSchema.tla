------------------------------ MODULE DbSchema ------------------------------
(***************************************************************************)
(* `apv db check` (db/parser.ts, db/checks.ts, db/live.ts): the migrations *)
(* are read in order and a model of the schema is kept by NAME; Postgres,  *)
(* where the same statements apply, keeps its catalogue by identity.  The  *)
(* checks read the model; the live checks read the catalogue.              *)
(*                                                                         *)
(* A script is any sequence of statements Postgres accepts.  `blurred`     *)
(* names the statements after which the model is known to part from the    *)
(* catalogue: those that can only add findings, and those that can hide    *)
(* one.                                                                    *)
(***************************************************************************)
EXTENDS Naturals, Sequences, FiniteSets, SequencesExt, FiniteSetsExt, Functions

CONSTANTS MaxStatements, \* bound: statements of a script
          Subjects       \* what a script is about: "tables", "functions"

DbAssumption == MaxStatements \in Nat /\ Subjects \subseteq {"tables", "functions"}

VARIABLES model,   \* MigrationParser.model
          db,      \* pg_catalog
          blurred, \* why the two may differ (history)
          step, subject

vars == <<model, db, blurred, step, subject>>

\* The statements after which a finding may be missing, and those after which
\* one may be there for nothing.
Hiding == {"temporary table of an ended file", "two overloads of one arity",
           "function moved to a schema", "name already taken",
           "one name in two schemas", "key other than id",
           "key and index of one name"}
Adding == {"guard renamed", "key dropped in cascade"}

TableNames == {"t", "u"}
Total == [other |-> FALSE, notNull |-> {}]     \* an index without `where`

-----------------------------------------------------------------------------
(* Postgres: tables, columns and functions have an identity, names change.  *)

Oid(n) == LET Of(s) == {o \in DOMAIN db.tables : db.tables[o].key = <<s, n>>}
          IN  IF Of("pg_temp") # {} THEN Of("pg_temp") ELSE Of("public")
Exists(n) == Oid(n) # {}
TheOid(n) == CHOOSE o \in Oid(n) : TRUE
Cols(n) == Range(db.tables[TheOid(n)].cols)
Att(o, c) == CHOOSE a \in DOMAIN db.tables[o].cols : db.tables[o].cols[a] = c
Atts(o, s) == [k \in DOMAIN s |-> Att(o, s[k])]
NewOid == 10 + step

\* The name Postgres gives: the default one, numbered when it is taken.
Named(base, taken) ==
  <<base, Min({k \in 0..Cardinality(taken) : <<base, k>> \notin taken})>>
Schema(o) == db.tables[o].key[1]
IndexNames(s) == {i.name : i \in {j \in db.idx : Schema(j.oid) = s}}
AllIndexNames == IndexNames("public") \cup IndexNames("pg_temp")
Constraints(o) == {f.name : f \in {g \in db.fks : g.oid = o}}
                  \cup {i.name : i \in {j \in db.idx : j.oid = o /\ j.kind # "index"}}

\* The catalogue, written with the names the model uses.
View ==
  LET Key(o) == db.tables[o].key
      Name(o, a) == db.tables[o].cols[a]
      Names(o, s) == [k \in DOMAIN s |-> Name(o, s[k])]
  IN [tables |-> [k \in {Key(o) : o \in DOMAIN db.tables} |->
         LET o == CHOOSE p \in DOMAIN db.tables : Key(p) = k
         IN  [cols |-> Range(db.tables[o].cols), rls |-> db.tables[o].rls,
              forced |-> db.tables[o].forced]],
      idx |-> {[name |-> i.name, table |-> Key(i.oid), kind |-> i.kind,
                unique |-> i.unique, cols |-> Names(i.oid, i.atts),
                where |-> [other |-> i.where.other,
                           notNull |-> {Name(i.oid, a) : a \in i.where.notNull}]] : i \in db.idx},
      fks |-> {[name |-> f.name, table |-> Key(f.oid), cols |-> Names(f.oid, f.atts),
                ref |-> Key(f.ref), refCols |-> Names(f.ref, f.refAtts)] : f \in db.fks},
      pol |-> {[name |-> p.name, table |-> Key(p.oid), broad |-> p.broad] : p \in db.pol},
      fns |-> Range(db.fns), notes |-> {}]

-----------------------------------------------------------------------------
(* The model.                                                               *)

Resolve(n) == IF <<"pg_temp", n>> \in DOMAIN model.tables
              THEN <<"pg_temp", n>> ELSE <<"public", n>>

\* Every name of `from` becomes `to`.
Renamed(s, from, to) == [k \in DOMAIN s |-> IF s[k] = from THEN to ELSE s[k]]
AddIndex(m, i) == [m EXCEPT !.idx = @ \cup {i}]
Primary(k) == [name |-> <<<<k[2], "pkey">>, 0>>, table |-> k, kind |-> "primary",
               unique |-> TRUE, cols |-> <<"id">>, where |-> Total]
UniqueOf(k, cols, name) ==
  [name |-> name, table |-> k, kind |-> "unique", unique |-> TRUE,
   cols |-> cols, where |-> Total]
KeyOf(k, cols, ref, refCols, name) ==
  [name |-> name, table |-> k, cols |-> cols, ref |-> ref, refCols |-> refCols]

Both(m, d, why) ==
  /\ model' = m /\ db' = d
  /\ blurred' = blurred \cup why
  /\ step' = step + 1
  /\ UNCHANGED subject

Ready(s) == subject = s /\ step < MaxStatements

-----------------------------------------------------------------------------
(* Tables.                                                                  *)

CreateTable(n, temporary, ifNotExists) ==
  LET key == <<IF temporary THEN "pg_temp" ELSE "public", n>>
      there == \E o \in DOMAIN db.tables : db.tables[o].key = key
      noted == IF key \in DOMAIN model.tables THEN {key} ELSE {}
      read == IF ifNotExists /\ noted # {} THEN model
              ELSE AddIndex([model EXCEPT
                     !.tables = (key :> [cols |-> {"id", "b"}, rls |-> FALSE, forced |-> FALSE]) @@ @,
                     !.notes = @ \cup noted], Primary(key))
      name == Named(<<n, "pkey">>, IndexNames(key[1]))
  IN /\ there => ifNotExists
     /\ Both(read,
             IF there THEN db
             ELSE [db EXCEPT
                    !.tables = (NewOid :> [key |-> key, cols |-> <<"id", "b">>,
                                           rls |-> FALSE, forced |-> FALSE]) @@ @,
                    !.idx = @ \cup {[name |-> name, oid |-> NewOid, kind |-> "primary",
                                     unique |-> TRUE, atts |-> <<1>>, where |-> Total]}],
             IF ~there /\ name[2] > 0 THEN {"name already taken"} ELSE {})

DropTable(n) ==
  LET key == Resolve(n)  o == TheOid(n)
  IN /\ Exists(n)
     /\ Both([model EXCEPT
               !.tables = [k \in DOMAIN @ \ {key} |-> @[k]],
               !.idx = {i \in @ : i.table # key},
               !.fks = {f \in @ : f.table # key /\ f.ref # key},
               !.pol = {p \in @ : p.table # key}],
             [db EXCEPT
               !.tables = [p \in DOMAIN @ \ {o} |-> @[p]],
               !.idx = {i \in @ : i.oid # o},
               !.fks = {f \in @ : o \notin {f.oid, f.ref}},
               !.pol = {p \in @ : p.oid # o}], {})

\* renameTable: everything that names the table follows.
Moved(m, from, to) ==
  IF from \notin DOMAIN m.tables THEN m
  ELSE LET New(k) == IF k = from THEN to ELSE k
       IN [m EXCEPT
            !.tables = [k \in (DOMAIN @ \ {from}) \cup {to} |->
                          IF k = to THEN @[from] ELSE @[k]],
            !.fks = {[f EXCEPT !.table = New(@), !.ref = New(@)] : f \in @},
            !.idx = {[i EXCEPT !.table = New(@)] : i \in @},
            !.pol = {[p EXCEPT !.table = New(@)] : p \in @}]

RenameTable(n, to) ==
  LET o == TheOid(n)  key == Resolve(n)
  IN /\ Exists(n)
     /\ \A p \in DOMAIN db.tables : db.tables[p].key # <<db.tables[o].key[1], to>>
     /\ Both(Moved(model, key, <<key[1], to>>),
             [db EXCEPT !.tables[o].key[2] = to], {})

\* A column, perhaps unique or referring to the `id` of another table.
WithColumn(m, key, c, extra, ref) ==
  IF key \notin DOMAIN m.tables THEN m
  ELSE LET w == [m EXCEPT !.tables[key].cols = @ \cup {c}]
       IN CASE extra = "none" -> w
            [] extra = "unique" ->
                 AddIndex(w, UniqueOf(key, <<c>>, <<<<key[2], <<c>>, "key">>, 0>>))
            [] extra = "references" ->
                 [w EXCEPT !.fks = @ \cup {KeyOf(key, <<c>>, ref, <<"id">>,
                                                 <<<<key[2], <<c>>, "fkey">>, 0>>)}]

AddColumn(n, c, extra, ref) ==
  LET o == TheOid(n)  r == TheOid(ref)  a == NewOid
      keys == {i \in db.idx : i.oid = r /\ i.kind = "primary"}
      pk == (CHOOSE i \in keys : TRUE).atts
      base == <<db.tables[o].key[2], <<c>>, IF extra = "unique" THEN "key" ELSE "fkey">>
      name == Named(base, Constraints(o) \cup IndexNames(Schema(o)))
      wide == [db EXCEPT !.tables[o].cols = (a :> c) @@ @]
  IN /\ Exists(n) /\ Exists(ref) /\ c \notin Cols(n)
     /\ db.tables[o].key[1] = db.tables[r].key[1]
     /\ extra = "references" => keys # {}
     /\ Both(WithColumn(model, Resolve(n), c, extra, Resolve(ref)),
             CASE extra = "none" -> wide
               [] extra = "unique" ->
                    [wide EXCEPT !.idx = @ \cup {[name |-> name, oid |-> o, kind |-> "unique",
                                  unique |-> TRUE, atts |-> <<a>>, where |-> Total]}]
               [] extra = "references" ->
                    [wide EXCEPT !.fks = @ \cup {[name |-> name, oid |-> o, atts |-> <<a>>,
                                  ref |-> r, refAtts |-> pk]}],
             (IF extra # "none" /\ name[2] > 0 THEN {"name already taken"} ELSE {})
             \cup IF extra = "references" /\ db.tables[r].cols[pk[1]] # "id"
                  THEN {"key other than id"} ELSE {})

\* rename column: keys and indexes follow, the predicates do not.
ColumnRenamed(m, key, from, to) ==
  IF key \notin DOMAIN m.tables THEN m
  ELSE [m EXCEPT
         !.tables[key].cols = IF from \in @ THEN (@ \ {from}) \cup {to} ELSE @,
         !.fks = {[f EXCEPT
                     !.cols = IF f.table = key THEN Renamed(@, from, to) ELSE @,
                     !.refCols = IF f.ref = key THEN Renamed(@, from, to) ELSE @] : f \in @},
         !.idx = {[i EXCEPT !.cols = IF i.table = key THEN Renamed(@, from, to) ELSE @] : i \in @}]

RenameColumn(n, from, to) ==
  LET o == TheOid(n)  a == Att(o, from)
  IN /\ Exists(n) /\ from \in Cols(n) /\ to \notin Cols(n)
     /\ Both(ColumnRenamed(model, Resolve(n), from, to),
             [db EXCEPT !.tables[o].cols[a] = to],
             IF \E i \in db.idx : i.oid = o /\ a \in i.where.notNull
             THEN {"guard renamed"} ELSE {})

\* Mutated form of ColumnDropped: the indexes stay.
ColumnDroppedAlone(m, key, c) ==
  [m EXCEPT
    !.tables = [k \in DOMAIN @ |-> IF k = key THEN [@[k] EXCEPT !.cols = @ \ {c}] ELSE @[k]],
    !.fks = {f \in @ : /\ ~(f.table = key /\ c \in Range(f.cols))
                       /\ ~(f.ref = key /\ c \in Range(f.refCols))}]

\* dropColumn: the indexes that mention the column go, and the keys from or to it.
ColumnDropped(m, key, c) ==
  [m EXCEPT
    !.tables = [k \in DOMAIN @ |-> IF k = key THEN [@[k] EXCEPT !.cols = @ \ {c}] ELSE @[k]],
    !.idx = {i \in @ : ~(i.table = key /\ c \in Range(i.cols) \cup i.where.notNull)},
    !.fks = {f \in @ : /\ ~(f.table = key /\ c \in Range(f.cols))
                       /\ ~(f.ref = key /\ c \in Range(f.refCols))}]

DropColumn(n, c) ==
  LET o == TheOid(n)  a == Att(o, c)
  IN /\ Exists(n) /\ c \in Cols(n)
     /\ Both(ColumnDropped(model, Resolve(n), c),
             [db EXCEPT
               !.tables[o].cols = [b \in DOMAIN @ \ {a} |-> @[b]],
               !.idx = {i \in @ : ~(i.oid = o /\ a \in Range(i.atts) \cup i.where.notNull)},
               !.fks = {f \in @ : /\ ~(f.oid = o /\ a \in Range(f.atts))
                                  /\ ~(f.ref = o /\ a \in Range(f.refAtts))}], {})

SetRls(n, what) ==
  LET key == Resolve(n)  o == TheOid(n)
      Set(t) == CASE what = "enable" -> [t EXCEPT !.rls = TRUE]
                  [] what = "disable" -> [t EXCEPT !.rls = FALSE]
                  [] what = "force" -> [t EXCEPT !.forced = TRUE]
                  [] what = "no force" -> [t EXCEPT !.forced = FALSE]
  IN /\ Exists(n)
     /\ Both([model EXCEPT !.tables = [k \in DOMAIN @ |-> IF k = key THEN Set(@[k]) ELSE @[k]]],
             [db EXCEPT !.tables[o] = Set(@)], {})

-----------------------------------------------------------------------------
(* Constraints and indexes.  A name is given, or <<>> for the default one.    *)

Given(name, base) == <<IF name = <<>> THEN base ELSE name, 0>>
Taken(name, base, taken) ==
  IF name = <<>> /\ <<base, 0>> \in taken THEN {"name already taken"} ELSE {}
Free(name, taken) == name = <<>> \/ <<name, 0>> \notin taken

AddKey(n, cols, ref, refCols, name) ==
  LET o == TheOid(n)  r == TheOid(ref)  key == Resolve(n)
      base == <<db.tables[o].key[2], cols, "fkey">>
      known == Constraints(o)
  IN /\ Exists(n) /\ Exists(ref)
     /\ Range(cols) \subseteq Cols(n) /\ Range(refCols) \subseteq Cols(ref)
     /\ db.tables[o].key[1] = db.tables[r].key[1]
     /\ \E i \in db.idx : /\ i.oid = r /\ i.unique /\ i.where = Total
                          /\ Range(i.atts) = Range(Atts(r, refCols))
     /\ Free(name, known)
     /\ Both(IF key \notin DOMAIN model.tables THEN model
             ELSE [model EXCEPT !.fks = @ \cup {KeyOf(key, cols, Resolve(ref), refCols,
                                                      Given(name, <<key[2], cols, "fkey">>))}],
             [db EXCEPT !.fks = @ \cup
                {[name |-> IF name = <<>> THEN Named(base, known) ELSE <<name, 0>>, oid |-> o,
                  atts |-> Atts(o, cols), ref |-> r, refAtts |-> Atts(r, refCols)]}],
             Taken(name, base, known))

AddUnique(n, cols, name) ==
  LET o == TheOid(n)  key == Resolve(n)
      base == <<db.tables[o].key[2], cols, "key">>
      known == IndexNames(Schema(o)) \cup Constraints(o)
  IN /\ Exists(n) /\ Range(cols) \subseteq Cols(n) /\ Free(name, known)
     /\ Both(IF key \notin DOMAIN model.tables THEN model
             ELSE AddIndex(model, UniqueOf(key, cols, Given(name, <<key[2], cols, "key">>))),
             [db EXCEPT !.idx = @ \cup
                {[name |-> IF name = <<>> THEN Named(base, known) ELSE <<name, 0>>, oid |-> o,
                  kind |-> "unique", unique |-> TRUE, atts |-> Atts(o, cols), where |-> Total]}],
             Taken(name, base, known))

\* add constraint <name> unique using index <i>: the index takes the name.
UseIndex(n, i, name) ==
  LET o == TheOid(n)  key == Resolve(n)
      Made(ix) == [ix EXCEPT !.kind = "unique", !.unique = TRUE, !.name = <<name, 0>>]
      known == IndexNames(Schema(o)) \cup Constraints(o)
  IN /\ Exists(n) /\ Free(name, known)
     /\ \E ix \in db.idx : ix.oid = o /\ ix.name = i /\ ix.kind = "index"
                           /\ ix.unique /\ ix.where = Total
     /\ Both(IF key \notin DOMAIN model.tables THEN model
             ELSE [model EXCEPT !.idx = {IF ix.table = key /\ ix.name = i THEN Made(ix) ELSE ix : ix \in @}],
             [db EXCEPT !.idx = {IF ix.oid = o /\ ix.name = i THEN Made(ix) ELSE ix : ix \in @}], {})

\* A foreign key and an index that is no constraint may have one name.
Shared(o, name) ==
  IF /\ \E i \in db.idx : i.oid = o /\ i.kind = "index" /\ i.name = name
     /\ name \in Constraints(o)
  THEN {"key and index of one name"} ELSE {}

\* dropConstraint knows the key of that name and the index behind it; Postgres
\* also drops, in cascade, the foreign keys that rest on that index.
DropConstraint(n, name) ==
  LET o == TheOid(n)  key == Resolve(n)
      gone == {i \in db.idx : i.oid = o /\ i.kind # "index" /\ i.name = name}
      Rests(f) == /\ f.ref = o /\ \E i \in gone : Range(i.atts) = Range(f.refAtts)
                  /\ ~\E i \in db.idx \ gone : /\ i.oid = o /\ i.unique /\ i.where = Total
                                               /\ Range(i.atts) = Range(f.refAtts)
  IN /\ Exists(n) /\ name \in Constraints(o)
     /\ \A f \in db.fks : f.ref = o =>
          Cardinality({i \in db.idx : i.oid = o /\ i.unique
                                      /\ Range(i.atts) = Range(f.refAtts)}) = 1
     /\ Both([model EXCEPT
               !.fks = {f \in @ : ~(f.table = key /\ f.name = name)},
               !.idx = {i \in @ : ~(i.table = key /\ i.kind # "index" /\ i.name = name)}],
             [db EXCEPT
               !.fks = {f \in @ : ~(f.oid = o /\ f.name = name) /\ ~Rests(f)},
               !.idx = @ \ gone],
             Shared(o, name)
               \cup IF \E f \in db.fks : Rests(f) THEN {"key dropped in cascade"} ELSE {})

RenameConstraint(n, from, to) ==
  LET o == TheOid(n)  key == Resolve(n)
      New(x) == IF x = from THEN <<to, 0>> ELSE x
  IN /\ Exists(n) /\ from \in Constraints(o) /\ Free(to, Constraints(o) \cup IndexNames(Schema(o)))
     /\ Both([model EXCEPT
               !.fks = {IF f.table = key THEN [f EXCEPT !.name = New(@)] ELSE f : f \in @},
               !.idx = {IF i.table = key THEN [i EXCEPT !.name = New(@)] ELSE i : i \in @}],
             [db EXCEPT
               !.fks = {IF f.oid = o THEN [f EXCEPT !.name = New(@)] ELSE f : f \in @},
               !.idx = {IF i.oid = o /\ i.kind # "index" THEN [i EXCEPT !.name = New(@)] ELSE i : i \in @}],
             Shared(o, from))

CreateIndex(n, cols, unique, where, name, ifNotExists) ==
  LET o == TheOid(n)  key == Resolve(n)
      base == <<db.tables[o].key[2], cols, "idx">>
      given == Given(name, <<key[2], cols, "idx">>)
      there == name # <<>> /\ <<name, 0>> \in IndexNames("public")
  IN /\ Exists(n) /\ db.tables[o].key[1] = "public"
     /\ Range(cols) \cup where.notNull \subseteq Cols(n)
     /\ ifNotExists => name # <<>>
     /\ there => ifNotExists
     /\ Both(IF ifNotExists /\ \E i \in model.idx : i.name = given THEN model
             ELSE AddIndex(model, [name |-> given, table |-> key,
                                   kind |-> IF unique THEN "unique" ELSE "index",
                                   unique |-> unique, cols |-> cols, where |-> where]),
             IF there THEN db
             ELSE [db EXCEPT !.idx = @ \cup
                    {[name |-> IF name = <<>> THEN Named(base, IndexNames("public")) ELSE given, oid |-> o,
                      kind |-> "index", unique |-> unique, atts |-> Atts(o, cols),
                      where |-> [where EXCEPT !.notNull = {Att(o, c) : c \in @}]]}],
             Taken(name, base, IndexNames("public")))

\* An index is found by its name, in the temporary schema first; the model
\* takes every index of that name.
Is(i, name) == /\ i.name = name
               /\ Schema(i.oid) = IF name \in IndexNames("pg_temp") THEN "pg_temp" ELSE "public"
TwoSchemas(name) == IF name \in IndexNames("pg_temp") \cap IndexNames("public")
                    THEN {"one name in two schemas"} ELSE {}

RenameIndex(from, to) ==
  LET New(i) == [i EXCEPT !.name = <<to, 0>>]
  IN /\ from \in AllIndexNames /\ Free(to, AllIndexNames)
     /\ Both([model EXCEPT !.idx = {IF i.name = from THEN New(i) ELSE i : i \in @}],
             [db EXCEPT !.idx = {IF Is(i, from) THEN New(i) ELSE i : i \in @}],
             TwoSchemas(from))

DropIndex(name) ==
  /\ \E i \in db.idx : Is(i, name) /\ i.kind = "index"
  /\ ~\E f \in db.fks : \E i \in db.idx : Is(i, name) /\ f.ref = i.oid /\ i.unique
  /\ Both([model EXCEPT !.idx = {i \in @ : i.name # name}],
          [db EXCEPT !.idx = {i \in @ : ~Is(i, name)}], TwoSchemas(name))

-----------------------------------------------------------------------------
(* Policies.                                                                *)

CreatePolicy(n, name, broad) ==
  LET o == TheOid(n)
  IN /\ Exists(n) /\ ~\E p \in db.pol : p.oid = o /\ p.name = name
     /\ Both([model EXCEPT !.pol = @ \cup {[name |-> name, table |-> Resolve(n), broad |-> broad]}],
             [db EXCEPT !.pol = @ \cup {[name |-> name, oid |-> o, broad |-> broad]}], {})

AlterPolicy(n, name, broad) ==
  LET o == TheOid(n)  key == Resolve(n)
  IN /\ Exists(n) /\ \E p \in db.pol : p.oid = o /\ p.name = name
     /\ Both([model EXCEPT !.pol = {IF p.table = key /\ p.name = name
                                    THEN [p EXCEPT !.broad = broad] ELSE p : p \in @}],
             [db EXCEPT !.pol = {IF p.oid = o /\ p.name = name
                                 THEN [p EXCEPT !.broad = broad] ELSE p : p \in @}], {})

RenamePolicy(n, from, to) ==
  LET o == TheOid(n)  key == Resolve(n)
  IN /\ Exists(n) /\ \E p \in db.pol : p.oid = o /\ p.name = from
     /\ ~\E p \in db.pol : p.oid = o /\ p.name = to
     /\ Both([model EXCEPT !.pol = {IF p.table = key /\ p.name = from
                                    THEN [p EXCEPT !.name = to] ELSE p : p \in @}],
             [db EXCEPT !.pol = {IF p.oid = o /\ p.name = from
                                 THEN [p EXCEPT !.name = to] ELSE p : p \in @}], {})

DropPolicy(n, name) ==
  LET o == TheOid(n)  key == Resolve(n)
  IN /\ Exists(n) /\ \E p \in db.pol : p.oid = o /\ p.name = name
     /\ Both([model EXCEPT !.pol = {p \in @ : ~(p.table = key /\ p.name = name)}],
             [db EXCEPT !.pol = {p \in @ : ~(p.oid = o /\ p.name = name)}], {})

\* The session of a migration file ends, and its temporary tables with it.
EndFile ==
  LET temp == {o \in DOMAIN db.tables : db.tables[o].key[1] = "pg_temp"}
  IN /\ temp # {}
     /\ Both(model,
             [db EXCEPT
               !.tables = [o \in DOMAIN @ \ temp |-> @[o]],
               !.idx = {i \in @ : i.oid \notin temp},
               !.fks = {f \in @ : f.oid \notin temp},
               !.pol = {p \in @ : p.oid \notin temp}],
             {"temporary table of an ended file"})

-----------------------------------------------------------------------------
(* Functions: `args` is the list of the types, NoArgs when none is written. *)

NoArgs == <<"none written">>
Safe == {"pg_catalog", "empty"}            \* SAFE_SEARCH_PATHS
Found(schema, name, args) ==               \* findFunctions
  LET same == {f \in model.fns : f.schema = schema /\ f.name = name}
  IN  IF args = NoArgs \/ Cardinality(same) = 1 THEN same
      ELSE {f \in same : Len(f.args) = Len(args)}
Called(schema, name, args) ==              \* Postgres
  {o \in DOMAIN db.fns : /\ db.fns[o].schema = schema /\ db.fns[o].name = name
                         /\ args \in {NoArgs, db.fns[o].args}}
Defaults(schema) == {"public"} \cup (IF schema = "public" THEN {"anon"} ELSE {})
Legal(schema, name, args) == Cardinality(Called(schema, name, args)) = 1
Apart(schema, name, args) ==
  LET o == CHOOSE p \in Called(schema, name, args) : TRUE
  IN  IF args # NoArgs /\ \E p \in DOMAIN db.fns \ {o} :
           /\ db.fns[p].schema = schema /\ db.fns[p].name = name
           /\ Len(db.fns[p].args) = Len(args)
      THEN {"two overloads of one arity"} ELSE {}

CreateFunction(schema, name, args, definer, path) ==
  LET known == {f \in model.fns : f.schema = schema /\ f.name = name /\ f.args = args}
      there == Called(schema, name, args)
      New(acl) == [schema |-> schema, name |-> name, args |-> args,
                   definer |-> definer, path |-> path, acl |-> acl]
      Grants(fs) == IF fs = {} THEN Defaults(schema) ELSE (CHOOSE f \in fs : TRUE).acl
      o == IF there = {} THEN NewOid ELSE CHOOSE p \in there : TRUE
  IN Both([model EXCEPT !.fns = (@ \ known) \cup {New(Grants(known))}],
          [db EXCEPT !.fns = (o :> New(Grants({db.fns[p] : p \in there}))) @@ @], {})

Altered(f, what, value) ==
  CASE what = "security" -> [f EXCEPT !.definer = value]
    [] what = "search_path" -> [f EXCEPT !.path = value]
    [] what = "rename" -> [f EXCEPT !.name = value]
    [] what = "schema" -> [f EXCEPT !.schema = value]
\* functionAttributes: `set` takes the statement before `set schema` is tried.
Attributed(f, what, value) == IF what = "schema" THEN f ELSE Altered(f, what, value)

AlterFunction(schema, name, args, what, value) ==
  LET o == CHOOSE p \in Called(schema, name, args) : TRUE
      targets == Found(schema, name, args)
      new == Altered(db.fns[o], what, value)
  IN /\ Legal(schema, name, args)
     /\ \A p \in DOMAIN db.fns \ {o} : \/ db.fns[p].schema # new.schema
                                       \/ db.fns[p].name # new.name
                                       \/ db.fns[p].args # new.args
     /\ Both([model EXCEPT !.fns = {IF f \in targets THEN Attributed(f, what, value) ELSE f : f \in @}],
             [db EXCEPT !.fns[o] = new],
             Apart(schema, name, args)
               \cup IF what = "schema" THEN {"function moved to a schema"} ELSE {})

DropFunction(schema, name, args) ==
  /\ Legal(schema, name, args)
  /\ Both([model EXCEPT !.fns = @ \ Found(schema, name, args)],
          [db EXCEPT !.fns = [o \in DOMAIN @ \ Called(schema, name, args) |-> @[o]]],
          Apart(schema, name, args))

GrantOrRevoke(schema, name, args, grant, role) ==
  LET Acl(f) == [f EXCEPT !.acl = IF grant THEN @ \cup {role} ELSE @ \ {role}]
      targets == Found(schema, name, args)
  IN /\ Legal(schema, name, args)
     /\ Both([model EXCEPT !.fns = {IF f \in targets THEN Acl(f) ELSE f : f \in @}],
             [db EXCEPT !.fns = [o \in DOMAIN @ |-> IF o \in Called(schema, name, args)
                                                    THEN Acl(@[o]) ELSE @[o]]],
             Apart(schema, name, args))

\* on all functions in schema ...
GrantOrRevokeAll(schema, grant, role) ==
  LET Acl(f) == IF f.schema # schema THEN f
                ELSE [f EXCEPT !.acl = IF grant THEN @ \cup {role} ELSE @ \ {role}]
  IN Both([model EXCEPT !.fns = {Acl(f) : f \in @}],
          [db EXCEPT !.fns = [o \in DOMAIN @ |-> Acl(@[o])]], {})

-----------------------------------------------------------------------------
(* Scripts.                                                                 *)

Lists == {<<"b">>, <<"user_id", "b">>, <<"b", "user_id">>}
NotNull(c) == [other |-> FALSE, notNull |-> {c}]
Other == [other |-> TRUE, notNull |-> {}]

TableStatement ==
  \/ \E temp, ifNot \in BOOLEAN : CreateTable("t", temp, ifNot)
  \/ \E n \in {"t", "u"} : DropTable(n)
  \/ RenameTable("t", "v")
  \/ \E e \in {"none", "unique", "references"} : AddColumn("t", "c", e, "u")
  \/ RenameColumn("t", "b", "c") \/ RenameColumn("t", "user_id", "c") \/ RenameColumn("u", "id", "c")
  \/ \E c \in {"b", "user_id"} : DropColumn("t", c) \/ DropColumn("u", c)
  \/ \E w \in {"enable", "disable", "force", "no force"} : SetRls("t", w)
ConstraintStatement ==
  \/ \E cols \in Lists, name \in {<<>>, <<"x">>} :
       AddKey("t", cols, "u", IF Len(cols) = 1 THEN <<"id">> ELSE <<"id", "b">>, name)
  \/ AddUnique("t", <<"id", "b">>, <<>>) \/ AddUnique("t", <<"user_id", "b">>, <<"x">>)
  \/ \E i \in AllIndexNames : UseIndex("t", i, <<"y">>)
  \/ \E c \in {f.name : f \in db.fks} \cup AllIndexNames, n \in {"t", "u"} : DropConstraint(n, c)
  \/ \E c \in {f.name : f \in db.fks} \cup AllIndexNames : RenameConstraint("t", c, <<"y">>)
  \/ \E cols \in Lists, where \in {Total, NotNull("b"), Other} :
       CreateIndex("t", cols, FALSE, where, <<>>, FALSE)
  \/ \E unique, ifNot \in BOOLEAN : CreateIndex("t", <<"b">>, unique, Total, <<"x">>, ifNot)
  \/ \E i \in AllIndexNames : RenameIndex(i, <<"y">>) \/ DropIndex(i)
PolicyStatement ==
  \/ \E broad \in BOOLEAN : CreatePolicy("t", "p", broad) \/ AlterPolicy("t", "p", broad)
  \/ RenamePolicy("t", "p", "q") \/ DropPolicy("t", "p")
FunctionStatement ==
  \/ \E args \in {<<>>, <<"int">>, <<"text">>}, definer \in BOOLEAN, path \in {"unset", "empty"} :
       CreateFunction("public", "f", args, definer, path)
  \/ \E schema \in {"public", "app"}, args \in {NoArgs, <<"int">>, <<"text">>} :
       \/ \E definer \in BOOLEAN : AlterFunction(schema, "f", args, "security", definer)
       \/ \E path \in {"unset", "empty", "public"} : AlterFunction(schema, "f", args, "search_path", path)
       \/ AlterFunction(schema, "f", args, "rename", "g")
       \/ AlterFunction(schema, "f", args, "schema", "app")
       \/ DropFunction(schema, "f", args)
       \/ \E grant \in BOOLEAN, role \in {"public", "anon"} : GrantOrRevoke(schema, "f", args, grant, role)

Next ==
  \/ Ready("tables") /\ (TableStatement \/ ConstraintStatement \/ PolicyStatement \/ EndFile)
  \/ Ready("functions") /\ FunctionStatement
  \/ Ready("functions") /\ \E schema \in {"public", "app"}, grant \in BOOLEAN, role \in {"public", "anon"} :
                             GrantOrRevokeAll(schema, grant, role)

\* A first migration made t and u, each with its id, its user_id and b, and a
\* second key on u; perhaps also a key and an index on t, both named x.
Init ==
  LET Made(n) == [key |-> <<"public", n>>, cols |-> <<"id", "b", "user_id">>,
                  rls |-> FALSE, forced |-> FALSE]
      Ix(name, o, kind, atts) == [name |-> <<name, 0>>, oid |-> o, kind |-> kind,
                                  unique |-> TRUE, atts |-> atts, where |-> Total]
      base == [tables |-> <<Made("t"), Made("u")>>,
               idx |-> {Ix(<<"t", "pkey">>, 1, "primary", <<1>>),
                        Ix(<<"u", "pkey">>, 2, "primary", <<1>>),
                        Ix(<<"u", <<"id", "b">>, "key">>, 2, "unique", <<1, 2>>)},
               fks |-> {}, pol |-> {}, fns |-> <<>>]
      keyed == [base EXCEPT
                 !.idx = @ \cup {Ix(<<"x">>, 1, "index", <<2>>)},
                 !.fks = {[name |-> <<<<"x">>, 0>>, oid |-> 1, atts |-> <<2>>,
                           ref |-> 2, refAtts |-> <<1>>]}]
  IN /\ subject \in Subjects
     /\ db \in IF subject = "tables" THEN {base, keyed} ELSE {base}
     /\ model = View
     /\ blurred = {} /\ step = 0

Spec == Init /\ [][Next]_vars
-----------------------------------------------------------------------------
(* The rules, on a schema with names.                                       *)

UsableForKey(i, cols) == ~i.where.other /\ i.where.notNull \subseteq Range(cols)
Covers(i, f) == /\ i.table = f.table /\ UsableForKey(i, f.cols) /\ Len(i.cols) >= Len(f.cols)
                /\ Range(SubSeq(i.cols, 1, Len(f.cols))) = Range(f.cols)
ForeignKeyIndexes(m) ==
  {<<"fk.index", f.table, f.name,
     IF /\ Len(f.cols) > 1
        /\ \E i \in m.idx : /\ i.table = f.table /\ UsableForKey(i, f.cols)
                            /\ i.cols[1] = f.cols[1]
     THEN "warning" ELSE "error">> :
   f \in {g \in m.fks : /\ g.table \in DOMAIN m.tables /\ g.table[1] # "pg_temp"
                        /\ ~\E i \in m.idx : Covers(i, g)}}

UserTables(m) == {k \in DOMAIN m.tables : k[1] = "public"}
RlsMissing(m, k) ==
  {w \in {"enabled", "forced", "policy"} :
     CASE w = "enabled" -> ~m.tables[k].rls
       [] w = "forced" -> ~m.tables[k].forced
       [] w = "policy" -> ~\E p \in m.pol : p.table = k}
Rls(m) ==
  {<<"rls.enabled_forced", k, RlsMissing(m, k), "error">> :
     k \in {j \in UserTables(m) : "user_id" \in m.tables[j].cols /\ RlsMissing(m, j) # {}}}
  \cup {<<"rls.enabled_forced", k, {"enabled"}, "warning">> :
     k \in {j \in UserTables(m) : "user_id" \notin m.tables[j].cols /\ ~m.tables[j].rls}}

Policies(m) == {<<"policy.too_broad", p.table, p.name, "warning">> : p \in {q \in m.pol : q.broad}}

Definers(m) ==
  LET definers == {f \in m.fns : f.definer}
      Sig(f) == <<f.schema, f.name, f.args>>
  IN {<<"definer.search_path", Sig(f), f.path, "error">> : f \in {g \in definers : g.path \notin Safe}}
     \cup {<<"definer.execute_grant", Sig(f), f.acl \cap {"public", "anon"}, "error">> :
             f \in {g \in definers : g.acl \cap {"public", "anon"} # {}}}

HasOwnerGuard(f) == \E k \in DOMAIN f.cols : f.cols[k] = "user_id" /\ f.refCols[k] = "user_id"
UserIdGuard(m) ==
  {<<"redundancy.user_id_guard", f.table, f.name, "warning">> :
     f \in {g \in m.fks :
              /\ {g.table, g.ref} \subseteq DOMAIN m.tables /\ g.table \in UserTables(m)
              /\ "user_id" \in m.tables[g.table].cols /\ "user_id" \in m.tables[g.ref].cols
              /\ ~HasOwnerGuard(g)
              /\ ~\E h \in m.fks : /\ h.table = g.table /\ h.ref = g.ref /\ HasOwnerGuard(h)
                                   /\ Range(g.cols) \subseteq Range(h.cols)}}

Idempotency(m) ==
  {<<"idempotency.create_tables", k, "", "warning">> :
     k \in {j \in UserTables(m) :
              /\ {"user_id", "created_at"} \subseteq m.tables[j].cols
              /\ ~\E i \in m.idx : i.table = j /\ i.unique /\ "id" \notin Range(i.cols)}}

Notes(m) == {<<"parse.statement", n, "", "warning">> : n \in m.notes}

CheckModel(m) == Notes(m) \cup ForeignKeyIndexes(m) \cup Rls(m) \cup Policies(m)
                 \cup Definers(m) \cup UserIdGuard(m) \cup Idempotency(m)

\* FK_INDEX_SQL and RLS_SQL, on pg_catalog.
UsableForFk(i, f) == ~i.where.other /\ \A a \in i.where.notNull : a \in Range(f.atts)
Live ==
  LET n(f) == Len(f.atts)
      Serves(i, f) == /\ i.oid = f.oid /\ UsableForFk(i, f) /\ n(f) <= Len(i.atts)
                      /\ Range(f.atts) \subseteq {i.atts[k] : k \in 1..n(f)}
      Leading(f) == \E i \in db.idx : i.oid = f.oid /\ UsableForFk(i, f) /\ i.atts[1] = f.atts[1]
      Key(o) == db.tables[o].key
  IN {<<"fk.index", Key(f.oid), f.name, IF Leading(f) /\ n(f) > 1 THEN "warning" ELSE "error">> :
        f \in {g \in db.fks : Key(g.oid)[1] = "public" /\ ~\E i \in db.idx : Serves(i, g)}}
     \cup {<<"rls.enabled_forced", Key(o), RlsMissing(View, Key(o)), "error">> :
        o \in {p \in DOMAIN db.tables : /\ Key(p)[1] = "public" /\ RlsMissing(View, Key(p)) # {}
                                        /\ "user_id" \in Range(db.tables[p].cols)}}

-----------------------------------------------------------------------------
\* The findings on the model are those on the schema Postgres has: exactly,
\* unless the script met one of the statements of `blurred`; and after those
\* that can only add, none is missing.
ChecksSeeTheSchema ==
  /\ blurred = {} => CheckModel(model) = CheckModel(View)
  /\ blurred \cap Hiding = {} =>
       \A f \in CheckModel(View) : \E g \in CheckModel(model) :
         /\ \A k \in 1..3 : f[k] = g[k]
         /\ f[4] = "error" => g[4] = "error"

\* What the live checks find in the database is what the same rules say of its
\* schema.
LiveAgrees ==
  Live = {f \in CheckModel(View) : \/ f[1] = "fk.index"
                                   \/ f[1] = "rls.enabled_forced" /\ f[4] = "error"}
=============================================================================
