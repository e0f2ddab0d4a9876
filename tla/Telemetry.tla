----------------------------- MODULE Telemetry ------------------------------
(***************************************************************************)
(* The payload of the telemetry beacon, src/src/rns/Telemetry.cpp, taken   *)
(* from the configuration and the counters of the node by                  *)
(* make_telemetry_snapshot (src/src/main.cpp).                             *)
(***************************************************************************)
EXTENDS Msgpack

CONSTANT Degrees(_)   \* microdegrees to the float of degrees, on their bytes

Unset == <<0, 0, 0, 0>>

\* counts holds the two numbers of 16 bits, then the four of 32.
Snapshot(cfg, counts) ==
  [have_position |-> cfg.lat_udeg # Unset \/ cfg.lon_udeg # Unset,
   lat |-> Degrees(cfg.lat_udeg), lon |-> Degrees(cfg.lon_udeg),
   counts |-> counts, name |-> CString(cfg.display_name)]

EncodeOneNil(s) ==
  ArrayHeader(9)
    \o (IF s.have_position THEN Float32(s.lat) \o Float32(s.lon) ELSE Nil)
    \o Uint(s.counts[1]) \o Uint(s.counts[2]) \o Uint(s.counts[3])
    \o Uint(s.counts[4]) \o Uint(s.counts[5]) \o Uint(s.counts[6])
    \o Str(s.name)

Encode(s) ==
  ArrayHeader(9)
    \o (IF s.have_position THEN Float32(s.lat) \o Float32(s.lon) ELSE Nil \o Nil)
    \o Uint(s.counts[1]) \o Uint(s.counts[2]) \o Uint(s.counts[3])
    \o Uint(s.counts[4]) \o Uint(s.counts[5]) \o Uint(s.counts[6])
    \o Str(s.name)
=============================================================================
