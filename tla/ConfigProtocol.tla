-------------------------- MODULE ConfigProtocol ----------------------------
(***************************************************************************)
(* The dispatcher of configuration requests, src/src/ConfigProtocol.cpp:   *)
(* from the bytes of a request to those of the answer.  The fields of a    *)
(* configuration are their bytes, a name or word on the wire is one byte.  *)
(***************************************************************************)
EXTENDS Msgpack

CONSTANTS
  WireName,    \* the byte that stands for a field's name, or a word of the protocol
  NameMax,     \* sizeof(display_name) - 1
  IdentityHash, Version

\* The integer fields and their bytes; they are listed in the order of answers.
IntFields == <<"freq_hz", "bw_hz", "sf", "cr", "txp_dbm", "lat_udeg", "lon_udeg", "alt_m">>

IntWidth ==
  [freq_hz |-> 4, bw_hz |-> 4, sf |-> 1, cr |-> 1, txp_dbm |-> 1,
   lat_udeg |-> 4, lon_udeg |-> 4, alt_m |-> 4]

Fields == DOMAIN IntWidth \cup {"batt_mult", "display_name"}

Word(w) == Str(<<WireName[w]>>)
OkTrue  == Word("ok") \o BoolVal(TRUE)

ErrorResponseOnePair(err) ==
  MapHeader(1) \o Word("ok") \o BoolVal(FALSE) \o Word("err") \o Word(err)

ErrorResponse(err) ==
  MapHeader(2) \o Word("ok") \o BoolVal(FALSE) \o Word("err") \o Word(err)

-----------------------------------------------------------------------------
(* Requests without arguments *)

HandlePing ==
  MapHeader(3) \o OkTrue \o Word("identity_hash") \o Bin(IdentityHash)
               \o Word("version") \o Word(Version)

\* txp_dbm, of one signed byte, is sent as uint32 like the signed fields of
\* four; the name ends at its first NUL.
Outgoing(cfg, f) ==
  CASE f = "txp_dbm" ->
         SubSeq(Widened(cfg[f], IF cfg[f][1] >= 128 THEN 255 ELSE 0), 5, 8)
    [] f = "display_name" -> CString(cfg[f])
    [] OTHER -> cfg[f]

HandleGetConfig(cfg) ==
  LET ints[i \in 0 .. Len(IntFields)] ==
        IF i = 0 THEN << >>
        ELSE ints[i - 1] \o Word(IntFields[i]) \o Uint(Outgoing(cfg, IntFields[i]))
  IN  MapHeader(11) \o OkTrue \o ints[Len(IntFields)]
        \o Word("batt_mult") \o Float32(cfg.batt_mult)
        \o Word("display_name") \o Str(Outgoing(cfg, "display_name"))

\* The save callback succeeds or not.
HandleCommit(saves) ==
  IF saves THEN MapHeader(1) \o OkTrue ELSE ErrorResponse("commit_failed")

-----------------------------------------------------------------------------
(* set_config *)

\* Lowest bytes of an int64_t: static_cast to a narrower integer.
Cast(int64, bytes) == SubSeq(int64, 9 - bytes, 8)

Shortened(s) == SubSeq(s, 1, IF Len(s) < NameMax THEN Len(s) ELSE NameMax)

FieldNamed(key) == {f \in Fields : key = <<WireName[f]>>}

\* The value of a known field: read by its type.
ReadField(r, f) ==
  IF f \in DOMAIN IntWidth THEN ReadInt(r)
  ELSE IF f = "batt_mult" THEN ReadFloat32(r)
  ELSE ReadStr(r)

Assigned(cfg, f, val) ==
  [cfg EXCEPT ![f] = IF f \in DOMAIN IntWidth THEN Cast(val, IntWidth[f])
                     ELSE IF f = "batt_mult" THEN val
                     ELSE Shortened(val)]

ApplyField(s, f, v) ==
  [reader  |-> v.reader,
   cfg     |-> IF v.reader.ok THEN Assigned(s.cfg, f, v.val) ELSE s.cfg,
   applied |-> s.applied + 1]

ApplyKey(s, key) ==
  IF ~key.reader.ok THEN [s EXCEPT !.reader = key.reader]
  ELSE IF FieldNamed(key.val) = {} THEN [s EXCEPT !.reader = SkipValue(key.reader)]
  ELSE LET f == CHOOSE g \in FieldNamed(key.val) : TRUE
       IN  ApplyField(s, f, ReadField(key.reader, f))

\* One pair of the request; the value of an unknown key is skipped.
ApplyPair(s) == ApplyKey(s, ReadStr(s.reader))

\* apply_set_fields: the fields before the first that cannot be read are
\* applied.  Each pair takes a byte at least, so that more rounds than bytes
\* change nothing.
ApplySetFields(r, cfg, pairs) ==
  LET rounds == IF pairs <= Len(r.buf) THEN pairs ELSE Len(r.buf) + 1
      after[k \in 0 .. rounds] ==
        IF k = 0 THEN [reader |-> r, cfg |-> cfg, applied |-> 0]
        ELSE LET s == after[k - 1] IN IF s.reader.ok THEN ApplyPair(s) ELSE s
  IN  after[rounds]

HandleSetConfig(s) ==
  IF s.reader.ok
  THEN MapHeader(2) \o OkTrue \o Word("set") \o Uint(Be16(s.applied))
  ELSE ErrorResponse("malformed")

-----------------------------------------------------------------------------

Reply(resp, cfg) == [resp |-> resp, cfg |-> cfg, commits |-> FALSE]

SetConfig(s) == Reply(HandleSetConfig(s), s.cfg)

\* The command, and what follows it in the map of that many pairs.
Perform(cmd, pairs, cfg, saves) ==
  LET is(w) == cmd.val = <<WireName[w]>>
  IN  IF ~cmd.reader.ok THEN Reply(ErrorResponse("cmd_string"), cfg)
      ELSE IF is("ping") THEN Reply(HandlePing, cfg)
      ELSE IF is("get_config") THEN Reply(HandleGetConfig(cfg), cfg)
      ELSE IF is("commit") THEN [Reply(HandleCommit(saves), cfg) EXCEPT !.commits = TRUE]
      ELSE IF is("set_config") THEN SetConfig(ApplySetFields(cmd.reader, cfg, pairs - 1))
      ELSE Reply(ErrorResponse("unknown_command"), cfg)

\* "cmd" must be the first key.
FirstKey(key, pairs, cfg, saves) ==
  IF ~key.reader.ok THEN Reply(ErrorResponse("expected_key"), cfg)
  ELSE IF key.val # <<WireName["cmd"]>> THEN Reply(ErrorResponse("cmd_first"), cfg)
  ELSE Perform(ReadStr(key.reader), pairs, cfg, saves)

TopLevel(map, cfg, saves) ==
  IF ~map.reader.ok THEN Reply(ErrorResponse("expected_map"), cfg)
  ELSE IF map.val = 0 THEN Reply(ErrorResponse("empty_map"), cfg)
  ELSE FirstKey(ReadStr(map.reader), map.val, cfg, saves)

\* handle_request: the answer, the configuration afterwards, and whether the
\* save callback was called.
HandleRequest(request, cfg, saves) == TopLevel(ReadMapHeader(Reader(request)), cfg, saves)
=============================================================================
