-------------------------------- MODULE Calls --------------------------------
(***************************************************************************)
(* The HTTP client of src/calls.py as its callers see it: a request either *)
(* yields data or None.  A reply is what the node and the network do to    *)
(* one request; its body is given by the module that makes the call.       *)
(*                                                                         *)
(* Validators are named by their consensus address, the hexadecimal string *)
(* that pubkey_to_consensus_hex computes and that the node puts in votes   *)
(* and commits.                                                            *)
(***************************************************************************)
CONSTANT Validator

(* "raised" stands for every exception of the request: a client error, the *)
(* ten second timeout, a body that does not decode.                        *)
Reply(Body) ==
  [outcome : {"answered", "raised"}, status : {200, 500}, code : {0, 1}, body : Body]

(* handle_request: GET /status and GET /consensus_state.                   *)
handle_request(r) == r.outcome = "answered" /\ r.status = 200

(* handle_abci_request: an ABCI query also fails on a non-zero code.       *)
handle_abci_request(r) == handle_request(r) /\ r.code = 0

(* The bonded validators of a staking query.  keyless: one of the entries  *)
(* carries no consensus public key.                                        *)
ValidatorsBody == [bonded : SUBSET Validator, keyless : BOOLEAN]

(* get_validators: None, written {}, also when the answer is empty, since  *)
(* the value is then empty or has no 'validators' entry.                   *)
get_validators(r) == IF handle_abci_request(r) THEN r.body.bonded ELSE {}

(* Mutant of update_validators: without the test "if data".                *)
update_validators_unguarded(known, r) ==
  IF r.body.keyless THEN known ELSE get_validators(r)

(* update_validators of the ws monitor and of the fetch monitor: the new   *)
(* set replaces the old one only if the call gave data and every entry     *)
(* converts; otherwise the exception handler leaves the old set in place.  *)
update_validators(known, r) ==
  LET data == get_validators(r)
  IN  IF data = {} \/ r.body.keyless THEN known ELSE data

===============================================================================
