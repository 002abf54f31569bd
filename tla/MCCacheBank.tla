----------------------------- MODULE MCCacheBank -----------------------------
(***************************************************************************)
(* One set, of one way in most configurations, so that two lines compete.  *)
(***************************************************************************)
EXTENDS CacheOrder

A(s) == [set |-> 0, tag |-> "a", sector |-> s]
B(s) == [set |-> 0, tag |-> "b", sector |-> s]
Op(op, h, byteen) == [op |-> op, hart |-> h, byteen |-> byteen, strsp |-> FALSE]
StRsp(h, byteen) == [op |-> "ST", hart |-> h, byteen |-> byteen, strsp |-> TRUE]
Load == Op("LD", 1, {})

\* a write-back last level (LR/SC; long chains; two sectors per line), an L1 that forwards its
\* atomics (with and without stores), and a write-through last level
MCConfigs ==
  { [write_back |-> TRUE, is_llc |-> TRUE, latency |-> 2, ways |-> 1, reqs |-> 3, addrs |-> {A(0), B(0)},
     ops |-> {Op("ST", 2, {1}), Op("LR", 1, {1}), Op("SC", 1, {1})}],
    [write_back |-> TRUE, is_llc |-> TRUE, latency |-> 2, ways |-> 1, reqs |-> 4, addrs |-> {A(0)},
     ops |-> {Load, StRsp(1, {1}), Op("AMO", 1, {1, 2})}],
    [write_back |-> TRUE, is_llc |-> TRUE, latency |-> 2, ways |-> 1, reqs |-> 3, addrs |-> {A(0), A(1), B(0)},
     ops |-> {Op("ST", 1, {1})}],
    [write_back |-> FALSE, is_llc |-> FALSE, latency |-> 2, ways |-> 1, reqs |-> 3, addrs |-> {A(0), B(0)},
     ops |-> {Load, Op("ST", 1, {1}), Op("AMO", 1, {1})}],
    [write_back |-> FALSE, is_llc |-> FALSE, latency |-> 2, ways |-> 2, reqs |-> 3, addrs |-> {A(0), A(1)},
     ops |-> {Load, Op("AMO", 1, {2})}],
    [write_back |-> FALSE, is_llc |-> TRUE, latency |-> 2, ways |-> 1, reqs |-> 3, addrs |-> {A(0), B(0)},
     ops |-> {Load, StRsp(1, {1, 2}), Op("LR", 2, {2})}] }

\* a write-back bank and stores that need no response
MCFlushConfigs ==
  { [write_back |-> TRUE, is_llc |-> TRUE, latency |-> 2, ways |-> 1, reqs |-> 2, addrs |-> {A(0), B(0)},
     ops |-> {Op("ST", 1, {1})}] }
==============================================================================
