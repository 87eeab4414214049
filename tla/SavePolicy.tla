------------------------------ MODULE SavePolicy ------------------------------
(***************************************************************************)
(* Which heights the program writes to result/<height>/.                   *)
(*                                                                         *)
(* The decision is spread over three places: utils/flags.py accepts or     *)
(* refuses the command line, App.__init__ in main.py expands the target    *)
(* and the number of post-target blocks into check_blocks_list, and every  *)
(* handler that saves repeats the same test.                               *)
(*                                                                         *)
(* Heights are compared as strings.  Chain heights are decimal numerals    *)
(* without padding; the target height is what the user typed, so it may be *)
(* "padded" ("0814165", "+814165"): the same number, another string.       *)
(***************************************************************************)
EXTENDS Integers

Options ==
  [ target         : [spelling : {"absent", "canonical", "padded"}, height : Nat],
    post           : [given : BOOLEAN, num : Int],   \* '' is not given
    save_all       : BOOLEAN,
    no_save        : BOOLEAN,
    dashboard_only : BOOLEAN ]

HasTarget(o) == o.target.spelling # "absent"

(* parse_args: the combinations of flags the parser lets through.          *)
Accepted(o) ==
  \/ o.dashboard_only
  \/ o.no_save /\ ~o.save_all /\ ~HasTarget(o)
  \/ ~o.no_save /\ (o.save_all \/ HasTarget(o))

(* Mutants of check_blocks_list: one block too many; range without "+ 1".  *)
check_blocks_list_one_more(o) ==
  IF HasTarget(o) /\ o.post.given
  THEN { o.target.height + i : i \in 0 .. o.post.num + 1 }
  ELSE {}

check_blocks_list_one_less(o) ==
  IF HasTarget(o) /\ o.post.given
  THEN { o.target.height + i : i \in 0 .. o.post.num - 1 }
  ELSE {}

(* App.__init__: str(int(target_height) + i), hence always canonical.      *)
check_blocks_list(o) ==
  IF HasTarget(o) /\ o.post.given
  THEN { o.target.height + i : i \in 0 .. o.post.num }
  ELSE {}

EqualsTarget(o, h) == o.target.spelling = "canonical" /\ o.target.height = h

(* The guard of process_new_vote_entry, process_new_block_entry and        *)
(* update_current_consensus_state.                                         *)
Selects(o, h) ==
  ~o.no_save /\ (EqualsTarget(o, h) \/ o.save_all \/ h \in check_blocks_list(o))

(* What README.md promises for an accepted command line: everything with   *)
(* --save_all, nothing with --no_save, and otherwise the target and the    *)
(* post-target blocks after it.                                            *)
Promised(o, h) ==
  \/ o.save_all
  \/ /\ HasTarget(o)
     /\ o.target.height <= h
     /\ h <= o.target.height + (IF o.post.given /\ o.post.num > 0 THEN o.post.num ELSE 0)

(* The comparison of strings finds the target: it is typed the way the     *)
(* chain writes it, or check_blocks_list begins with it, rewritten.        *)
TargetMatches(o) == o.target.spelling = "canonical" \/ (o.post.given /\ o.post.num >= 0)

(* A height that is promised and within reach of that comparison.          *)
MustSave(o, h) == ~o.no_save /\ Promised(o, h) /\ (o.save_all \/ TargetMatches(o))

===============================================================================
