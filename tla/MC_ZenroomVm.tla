---------------------------- MODULE MC_ZenroomVm ----------------------------
(***************************************************************************)
(* ZenroomVm for TLC: workers that reach each error of preparation,        *)
(* selection and postbacks, and those that succeed.                        *)
(***************************************************************************)
EXTENDS ZenroomVm

MCOperator ==
    [max_script_bytes |-> 1, max_total_secrets_bytes |-> 3, require_kdf |-> TRUE,
     max_derived_key_len |-> 2, allow_debug_conf |-> FALSE, max_conf_bytes |-> 2,
     postback_enabled |-> TRUE, postback_allowed_schemes |-> {"https"},
     postback_allowed_ports |-> {443}, postback_allowed_hosts |-> {"listed"},
     postback_block_private_ips |-> TRUE]

Base == [script |-> 1, mode |-> None, secrets |-> 0, keys |-> None, conf |-> None,
         pointer |-> FALSE, format |-> None, response_mode |-> None, enabled |-> None,
         required |-> None, retries |-> 1, targets |-> None]

Secret(present, len, kdf) == [present |-> present, len |-> len, kdf |-> kdf]

Url == [scheme |-> "https", port |-> 443, host |-> "listed", ips |-> {"public"}]

Target(url, body) == [url |-> url, body |-> body]

MCUserdata ==
    {\* refused: the script, the secrets
     [Base EXCEPT !.script = 2], [Base EXCEPT !.secrets = 4],
     \* two secrets within the limits; a missing one; too much in total
     [Base EXCEPT !.secrets = 3, !.keys = <<Secret(TRUE, 2, 1), Secret(TRUE, 1, 1)>>,
                  !.pointer = TRUE, !.response_mode = "selected_output"],
     [Base EXCEPT !.keys = <<Secret(FALSE, 1, 1)>>],
     [Base EXCEPT !.secrets = 2, !.keys = <<Secret(TRUE, 1, 2), Secret(TRUE, 1, 2)>>],
     \* a configuration that is too long
     [Base EXCEPT !.conf = <<"debug", "rngseed", "memmanager">>],
     \* postbacks that are required, and postbacks that are not
     [Base EXCEPT !.enabled = TRUE, !.required = TRUE],
     [Base EXCEPT !.enabled = TRUE, !.required = TRUE, !.pointer = TRUE,
                  !.targets = <<Target(Url, "stdout"), Target(Url, "selected_output")>>],
     [Base EXCEPT !.enabled = TRUE, !.format = "raw",
                  !.targets = <<Target([Url EXCEPT !.ips = {"private"}], "stdout"),
                                Target(Url, "pointer")>>]}
=============================================================================
