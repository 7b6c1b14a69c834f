------------------------------ MODULE AppendLog ------------------------------
(***************************************************************************)
(* What a published aid ledger promises its readers.  The log is a set of  *)
(* entries, each carrying its own sequence number and the one of the entry *)
(* its prev_hash names.  A hash is represented by the sequence number of   *)
(* the entry it covers: two entries never share a SHA-256 digest, so a     *)
(* digest names one entry.  Genesis (sixty-four zeros) is 0.               *)
(*                                                                         *)
(* The only thing that ever happens to the log is that one transaction     *)
(* publishes a non-empty batch, wholly after everything already published. *)
(***************************************************************************)
EXTENDS Naturals

VARIABLE entries

Genesis == 0

Entry == [seq : Nat \ {Genesis}, prev : Nat]

(* `s` is what ORDER BY seq DESC LIMIT 1 returns over S, or Genesis.       *)
IsTail(s, S) ==
    \/ S = {} /\ s = Genesis
    \/ /\ \E r \in S : r.seq = s
       /\ \A r \in S : r.seq <= s

Before(r, S) == {q \in S : q.seq < r.seq}

(* Read in sequence order, every entry names the entry right before it:    *)
(* the log is one chain, with no fork and no gap.                          *)
Linear(S) ==
    /\ \A r, q \in S : r.seq = q.seq => r = q
    /\ \A r \in S : IsTail(r.prev, Before(r, S))

LogInit == entries = {}

Publish ==
    /\ entries' # entries
    /\ entries \subseteq entries'
    /\ entries' \subseteq Entry
    /\ \A r \in entries' \ entries, q \in entries : q.seq < r.seq
    /\ Linear(entries')

LogSpec == LogInit /\ [][Publish]_entries
==============================================================================
