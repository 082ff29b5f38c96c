------------------------------ MODULE ImportFile ------------------------------
(***************************************************************************)
(* The file part of ImportsService: the header row of a sheet is detected, *)
(* its columns get keys, columns are suggested for the fields of a         *)
(* registration, and a line of the sheet becomes the data of one.          *)
(*                                                                         *)
(* A sheet is a sequence of lines, a line a sequence of cells.  What the   *)
(* service asks about the text of a cell (its normal form, whether it is a *)
(* number, whether one label contains another) is given by constants.      *)
(***************************************************************************)
EXTENDS Integers, Sequences, FiniteSets, SequencesExt

CONSTANTS
  Cells,               \* texts of cells
  Blank,               \* the empty cell
  Normal,              \* normalizeHeader of a cell
  Alike,               \* labels and aliases one of which contains the other
  Numeric,             \* cells that Number() reads
  Long,                \* cells of more than 80 characters
  ColumnLabel,         \* "Column A", "Column B", ...
  Renamed(_, _),       \* the key of the n-th column with a label
  Aliases,             \* the labels suggestMapping knows for a field
  Fallbacks,           \* the labels normalizeRow looks for, without a mapping
  KnownLabels,         \* getAllKnownHeaderAliases
  CustomFields,        \* the registration fields of the event, in their order
  TypeOfCode,          \* the attendee type of a code
  ScanLimit,           \* HEADER_SCAN_LIMIT
  SampleLines          \* lines looked at for the width and the numbers

SystemFields == <<"fullName", "phone", "email", "companyName", "jobTitle",
                  "externalId", "notes", "attendeeTypeCode">>
System == {SystemFields[i] : i \in 1..Len(SystemFields)}
CustomKeys == {CustomFields[i].key : i \in 1..Len(CustomFields)}

ASSUME FileAssumption ==
  /\ Blank \in Cells /\ Normal \in [Cells -> Cells]
  /\ Numeric \subseteq Cells /\ Long \subseteq Cells /\ KnownLabels \subseteq Cells
  /\ Aliases \in [System -> SUBSET Cells] /\ Fallbacks \in [System -> SUBSET Cells]
  /\ CustomKeys \cap System = {}
  /\ ScanLimit \in Nat \ {0} /\ SampleLines \in Nat \ {0}

None == "none"
Cell(line, c) == IF c <= Len(line) THEN line[c] ELSE Blank
Filled(line) == {c \in 1..Len(line) : line[c] # Blank}

-----------------------------------------------------------------------------
(* Parsing.                                                                *)

\* How much a line looks like the header.
Score(line) ==
  25 * Cardinality({c \in Filled(line) : Normal[line[c]] \in KnownLabels})
  + 2 * Cardinality(Filled(line))
  + Cardinality({Normal[line[c]] : c \in Filled(line)})
  - (IF Cardinality(Filled(line)) = 1 THEN 20 ELSE 0)
  - (IF \E c \in Filled(line) : line[c] \in Long THEN 8 ELSE 0)

\* The first line with the best score.
DetectHeaderRow(sheet) ==
  LET lines == {i \in 1..Min({Len(sheet), ScanLimit}) : Filled(sheet[i]) # {}}
      best  == {i \in lines : \A j \in lines : Score(sheet[i]) >= Score(sheet[j])}
  IN IF best = {} THEN 1 ELSE Min(best)

Labels(line, width) ==
  [c \in 1..width |-> IF Cell(line, c) # Blank THEN line[c] ELSE ColumnLabel[c]]

\* Mutant: columns with one label share a key.
BuildHeadersAsLabelled(line, width) == Labels(line, width)

\* The keys of the columns; a label that comes back is numbered.
BuildHeaders(line, width) ==
  LET label == Labels(line, width) IN
  [c \in 1..width |->
     LET n == Cardinality({d \in 1..c : label[d] = label[c]})
     IN IF n = 1 THEN label[c] ELSE Renamed(label[c], n)]

ParserAccepts(sheet, header, start) ==
  /\ sheet # <<>>
  /\ header \in 1..Len(sheet)
  /\ start \in header + 1 .. Len(sheet) + 1

\* The width of the table: that of the header or of a line of the sample.
Width(sheet, header, start) ==
  Max({Len(sheet[i]) : i \in {header} \cup start..Min({Len(sheet), start + SampleLines - 1})})

\* The numbers of the lines that become rows.
DataLines(sheet, start) == {i \in start..Len(sheet) : Filled(sheet[i]) # {}}

\* A later column overwrites an earlier one with its key.
DataOf(line, keys) ==
  [k \in {keys[c] : c \in 1..Len(keys)} |->
     Cell(line, Max({c \in 1..Len(keys) : keys[c] = k}))]

ParseFile(sheet, header, start) ==
  LET width == Width(sheet, header, start)
      keys  == BuildHeaders(sheet[header], width)
  IN [labels |-> Labels(sheet[header], width), keys |-> keys,
      rows |-> [i \in DataLines(sheet, start) |-> DataOf(sheet[i], keys)]]

-----------------------------------------------------------------------------
(* The mapping of fields to columns.                                       *)

NoMapping == [f \in System \cup CustomKeys |-> None]
Used(mapping) == {mapping[f] : f \in DOMAIN mapping} \ {None}

\* findHeaderFromHeaders: the first free column whose label is an alias, or
\* else the first whose label is like one.
FindHeader(file, used, aliases) ==
  LET free  == {c \in DOMAIN file.keys : file.keys[c] \notin used}
      exact == {c \in free : Normal[file.labels[c]] \in aliases}
      alike == {c \in free : \E a \in aliases : <<Normal[file.labels[c]], a>> \in Alike}
  IN IF exact # {} THEN file.keys[Min(exact)]
     ELSE IF alike # {} THEN file.keys[Min(alike)]
     ELSE None

Pick(file, mapping, field, aliases) ==
  [mapping EXCEPT ![field] = FindHeader(file, Used(mapping), aliases)]

\* findSequentialIdentifierHeader: the free column most of whose values are
\* numbers, each its own.  Scores are fractions, compared crosswise.
SequentialHeader(file, used) ==
  LET sample(c) == {i \in DOMAIN file.rows :
                      /\ Cardinality({j \in DOMAIN file.rows : j <= i}) <= SampleLines
                      /\ file.rows[i][file.keys[c]] # Blank}
      value(c, i) == file.rows[i][file.keys[c]]
      points(c) == Cardinality({i \in sample(c) : value(c, i) \in Numeric})
                   + Cardinality({value(c, i) : i \in sample(c)})
      size(c) == Cardinality(sample(c))
      free == {c \in DOMAIN file.keys :
                 /\ file.keys[c] \notin used
                 /\ size(c) >= Min({5, Cardinality(DOMAIN file.rows)})
                 /\ 5 * points(c) > 9 * size(c)}
      best == {c \in free : \A d \in free : points(c) * size(d) >= points(d) * size(c)}
  IN IF best = {} THEN None ELSE file.keys[Min(best)]

SuggestMapping(file) ==
  LET system   == FoldLeft(LAMBDA m, f : Pick(file, m, f, Aliases[f]), NoMapping, SystemFields)
      numbered == IF system["externalId"] # None THEN system
                  ELSE [system EXCEPT !["externalId"] = SequentialHeader(file, Used(system))]
  IN FoldLeft(LAMBDA m, f : Pick(file, m, f.key, f.labels), numbered, CustomFields)

\* validateMapping, for a job of attendee type kind or, with None, for one
\* whose lines name their type.
ValidMapping(file, mapping, kind) ==
  /\ mapping["fullName"] # None
  /\ kind # None \/ mapping["attendeeTypeCode"] # None
  /\ Used(mapping) \subseteq {file.keys[c] : c \in DOMAIN file.keys}
  /\ kind # None =>
       \A i \in 1..Len(CustomFields) :
         CustomFields[i].required /\ CustomFields[i].kind \in {None, kind}
           => mapping[CustomFields[i].key] # None

-----------------------------------------------------------------------------
(* What the preview warns of.                                              *)

\* Mutant: only lines next to each other are compared.
RepeatedNext(file, key) ==
  {i \in DOMAIN file.rows :
     /\ file.rows[i][key] # Blank
     /\ \E j \in DOMAIN file.rows \cap {i - 1, i + 1} : file.rows[j][key] = file.rows[i][key]}

\* findDuplicateIdentifiersInFile: the rows that share a value of the column.
Repeated(file, key) ==
  {i \in DOMAIN file.rows :
     /\ file.rows[i][key] # Blank
     /\ \E j \in DOMAIN file.rows \ {i} : file.rows[j][key] = file.rows[i][key]}

\* The codes buildPreviewWarnings gives, and the fields or rows they name.  The
\* guess that name and job title are swapped is left out, and so are labels that
\* look like numbered keys themselves, which it takes for renamed ones.
Warnings(file, mapping, kind) ==
  (IF DOMAIN file.rows = {} THEN {<<"NO_DATA_ROWS", {}>>} ELSE {})
  \cup (IF mapping["fullName"] = None THEN {<<"FULL_NAME_NOT_DETECTED", {}>>} ELSE {})
  \cup (IF mapping["phone"] = None THEN {<<"PHONE_NOT_DETECTED", {}>>} ELSE {})
  \cup {<<"REQUIRED_CUSTOM_FIELD_UNMAPPED", {i}>> :
          i \in {j \in 1..Len(CustomFields) :
                  /\ CustomFields[j].required /\ mapping[CustomFields[j].key] = None
                  /\ CustomFields[j].kind = None \/ kind \in {None, CustomFields[j].kind}}}
  \cup (IF \E c, d \in DOMAIN file.keys : c # d /\ file.labels[c] = file.labels[d]
        THEN {<<"DUPLICATE_HEADERS_RENAMED", {}>>} ELSE {})
  \cup {<<f, Repeated(file, mapping[f])>> :
          f \in {g \in {"phone", "email", "externalId"} :
                  mapping[g] # None /\ Repeated(file, mapping[g]) # {}}}

\* previewRegistrations, for an event with the attendee types given: it answers
\* nothing, or what an administrator is shown before the import.
Preview(file, kind, types) ==
  LET suggested == SuggestMapping(file) IN
  {[mapping |-> suggested, warnings |-> Warnings(file, suggested, kind)] :
     t \in {kind} \cap (types \cup {None})}

-----------------------------------------------------------------------------
(* A row of the job.                                                       *)

\* getOptionalMappedValue: the mapped column of row i, or else the first one
\* whose key is a known label.
MappedValue(file, i, mapping, field, fallbacks) ==
  LET known == {c \in DOMAIN file.keys : Normal[file.keys[c]] \in fallbacks}
      value == IF mapping[field] # None THEN file.rows[i][mapping[field]]
               ELSE IF known # {} THEN file.rows[i][file.keys[Min(known)]]
               ELSE Blank
  IN IF value = Blank THEN None ELSE value

SystemValue(file, i, mapping, field) == MappedValue(file, i, mapping, field, Fallbacks[field])

\* resolveAttendeeTypeId: the type of the code, or the default type.
ResolveType(code, types, default) ==
  IF code = None THEN default
  ELSE IF code \in DOMAIN TypeOfCode /\ TypeOfCode[code] \in types THEN TypeOfCode[code]
  ELSE None

\* normalizeCustomFieldValue, and what validateCustomFieldValue says of the result.
FieldAccepts(field, value) ==
  IF value = None THEN ~field.required
  ELSE /\ field.type = "NUMBER" => value \in Numeric
       /\ field.type \in {"SELECT", "BOOLEAN"} => value \in field.options

\* normalizeRow: the registration row i asks for; its kind is None when it has
\* no name or no attendee type.  Fields of other types are not read.
NormalizeRow(file, i, mapping, kind, types, default) ==
  LET value(f) == SystemValue(file, i, mapping, f)
      type == IF kind # None THEN kind
              ELSE ResolveType(value("attendeeTypeCode"), types, default)
      custom(f) == IF f.kind \in {None, type}
                   THEN MappedValue(file, i, mapping, f.key, f.labels) ELSE None
  IN [kind |-> IF value("fullName") = None THEN None ELSE type,
      phone |-> value("phone"), email |-> value("email"), externalId |-> value("externalId"),
      custom |-> [n \in 1..Len(CustomFields) |-> custom(CustomFields[n])]]

\* validateCustomFields, with the fields read when the job began.
FieldsAccepted(data) ==
  \A n \in 1..Len(CustomFields) :
    CustomFields[n].kind \in {None, data.kind} => FieldAccepts(CustomFields[n], data.custom[n])
=============================================================================
