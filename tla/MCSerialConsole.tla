-------------------------- MODULE MCSerialConsole ---------------------------
\* Requests as a JavaScript host encodes them: the shortest form of each
\* integer, float64 for a fraction, values of each width and sign, a field of
\* a later firmware with nested values, and values of the wrong type or range.
EXTENDS SerialConsole

MCNames == <<"cmd", "ok", "err", "set", "ping", "get_config", "commit", "set_config",
             "identity_hash", "version", "v1", "freq_hz", "bw_hz", "sf", "cr", "txp_dbm",
             "lat_udeg", "lon_udeg", "alt_m", "batt_mult", "display_name",
             "expected_map", "empty_map", "expected_key", "cmd_first", "cmd_string",
             "unknown_command", "malformed", "commit_failed", "unknown_field">>

\* Bytes that are no tag of a string, so that a shifted reading goes wrong.
MCWireName == [n \in {MCNames[k] : k \in DOMAIN MCNames} |->
                 64 + CHOOSE k \in DOMAIN MCNames : MCNames[k] = n]

MCCounts == <<<<15, 160>>, <<0, 3>>, <<0, 0, 1, 44>>, <<0, 0, 0, 200>>, <<0, 0, 0, 100>>, <<0, 0, 2, 88>>>>

\* The exact float plays no part.
MCDegrees(b) == b

\* Cutting at every byte reaches the same states.
MCCut == {1, 2} \cup {3 * k : k \in 0 .. 15}

MCHash == <<18, 52>>

\* 1.0 and, for the others, what keeps sign and some of the exponent
MCNarrowed(d) == IF SubSeq(d, 1, 3) = <<63, 240, 0>> THEN <<63, 128, 0, 0>> ELSE SubSeq(d, 1, 4)

\* name, new value, and the bytes of the value on the wire
Field(n, v, w) == [name |-> n, val |-> v, wire |-> w]

Mixed ==
  <<Field("lat_udeg", <<255, 255, 255, 56>>, <<209, 255, 56>>),       \* -200
    Field("unknown_field", Unknown, <<130, 1, 146, 192, 195, 162, 65, 66, 129, 2, 3>>),
    Field("txp_dbm", <<247>>, <<208, 247>>),                          \* -9
    Field("sf", <<7>>, <<7>>),
    Field("lon_udeg", <<255, 255, 255, 255>>, <<255>>)>>              \* -1

Spoilt ==
  <<Field("freq_hz", <<53, 231, 200, 0>>, <<207, 0, 0, 0, 0, 53, 231, 200, 0>>),
    Field("display_name", <<65, 0>>, <<163, 65, 0, 67>>),
    Field("batt_mult", <<63, 128, 0, 0>>, <<203, 63, 240, 0, 0, 0, 0, 0, 0>>),
    Field("alt_m", Faulty, <<207, 128, 0, 0, 0, 0, 0, 0, 0>>),
    Field("cr", <<8>>, <<8>>)>>

MistypedName == <<Field("bw_hz", <<0, 0, 0, 200>>, <<204, 200>>),
                  Field("display_name", Faulty, <<5>>)>>

MCRequest ==
  {[cmd |-> c, fields |-> << >>] : c \in {"ping", "get_config", "commit"}}
    \cup {[cmd |-> "set_config", fields |-> f] : f \in {Mixed, Spoilt, MistypedName}}

MCEncoded(r) ==
  LET from[k \in 1 .. Len(r.fields) + 1] ==
        IF k > Len(r.fields) THEN << >>
        ELSE Word(r.fields[k].name) \o r.fields[k].wire \o from[k + 1]
  IN  MapHeader(1 + Len(r.fields)) \o Word("cmd") \o Word(r.cmd) \o from[1]

MCDefaults ==
  [freq_hz |-> <<53, 231, 194, 152>>, bw_hz |-> <<0, 3, 208, 144>>, sf |-> <<10>>,
   cr |-> <<5>>, txp_dbm |-> <<22>>, lat_udeg |-> <<0, 0, 0, 0>>,
   lon_udeg |-> <<0, 0, 0, 0>>, alt_m |-> <<0, 0, 0, 0>>,
   batt_mult |-> <<63, 0, 0, 0>>, display_name |-> <<82>>]

ASSUME FramesFit == RequestsFit
=============================================================================
