------------------------------ MODULE MCAccounts ------------------------------
(***************************************************************************)
(* Small instance of Accounts, with where its tokens are kept and how an   *)
(* account signs in, of the editor of a game's settings with the table it  *)
(* and the settings pass work from, of an instance's own settings, and of  *)
(* the skins screen.                                                       *)
(* The parts do not share state in the models: one run explores each.  The *)
(* accounts are interchangeable.                                           *)
(***************************************************************************)
EXTENDS Accounts, OptionTable, TLC

CONSTANTS MaxIssued, MaxSwitches, MaxSignIns, HelperProfiles, MaxStrays, Keys, MaxValues, NoKey, MaxClicks, MaxFaults,
          MaxEdits, MaxTurns, MaxMoves, MaxWorkers, MaxSlips

ASSUME MCAccountsAssumption == MaxSignIns \in Nat

VARIABLES part,
          insecure, up, entry, legacy, tokens, issued, switches, latest, doubt,
          started, interactive, device, expiry, events, worker, strays, adopted, dropped,
          options, live, saver, playing, truth, written_values, overlaps,
          record, form, listed, catalog, filter, cache, fetching, dialog, marked, dirty, javas,
          settings_ops, settings_faults, picked, paired, excusedForm,
          current, tokenless, shown, picker, skins, workers, service, cached, edits, turns, hired,
          slips, selected, unclaimed, rivals, loaded, misled

T == INSTANCE TokenStore
S == INSTANCE SignIn
E == INSTANCE GameSettingsEditor
K == INSTANCE Skins WITH Users <- Accounts, Nobody <- NoAccount, active <- current, form <- skins,
                         chosen <- selected, excused <- unclaimed, raced <- rivals
I == INSTANCE InstanceSettings WITH Nothing <- NoKey

\* What stands for no overrides, and for no filter, is none of them.
ASSUME OptsAssumption == NoKey \notin I!Opts \cup I!Filters

storeVars == <<insecure, up, entry, legacy, tokens, issued, switches, latest, doubt>>
signInVars == <<started, interactive, device, expiry, events, worker, strays, adopted, dropped>>
settingsVars == <<options, live, saver, playing, truth, written_values, overlaps, crossing>>
formVars == <<record, form, listed, catalog, filter, cache, fetching, dialog, marked, dirty, javas,
              settings_ops, settings_faults, picked, paired, excusedForm>>

skinVars == <<current, tokenless, shown, picker, skins, workers, service, cached, edits, turns, hired,
              slips, selected, unclaimed, rivals, loaded, misled>>

Symmetry == Permutations(Accounts)

MCInit ==
    /\ part \in {"accounts", "store", "sign-in", "settings", "translation", "form", "skins"}
    /\ TableInit /\ (part = "translation" \/ (crossing.from = 0 /\ crossing.to = 0))
    /\ I!Init /\ (part = "form" \/ (record.version = "new" /\ record.loader = "Vanilla" /\ ~javas))
    /\ T!StoreInit /\ (part = "store" \/ legacy = T!NoTokens)
    /\ K!SkinsInit /\ (part = "skins" \/ (current = NoAccount /\ tokenless = {}))
    /\ Init /\ S!SignInInit /\ E!EditorInit

MCNext ==
    \/ part = "accounts" /\ Next /\ UNCHANGED <<storeVars, signInVars, settingsVars, formVars, skinVars, part>>
    \/ part = "store" /\ T!StoreNext /\ UNCHANGED <<vars, signInVars, settingsVars, formVars, skinVars, part>>
    \/ part = "sign-in" /\ S!SignInNext /\ UNCHANGED <<vars, storeVars, settingsVars, formVars, skinVars, part>>
    \/ /\ part = "settings" /\ E!EditorNext
       /\ UNCHANGED <<vars, storeVars, signInVars, crossing, formVars, skinVars, part>>
    \/ /\ part = "translation" /\ Cross
       /\ UNCHANGED <<vars, storeVars, signInVars, options, live, saver, playing, truth,
                      written_values, overlaps, formVars, skinVars, part>>
    \/ part = "form" /\ I!Next /\ UNCHANGED <<vars, storeVars, signInVars, settingsVars, skinVars, part>>
    \/ part = "skins" /\ K!SkinsNext /\ UNCHANGED <<vars, storeVars, signInVars, settingsVars, formVars, part>>

MCSpec == MCInit /\ [][MCNext]_<<vars, storeVars, signInVars, settingsVars, formVars, skinVars, part>>

\* Behaviours end where little more is claimed of them: at a second kind of failure
\* or race, and when savers that raced meet the skins screen.
Claimed ==
    /\ part = "accounts" => /\ Cardinality(excused \cup raced) <= 1
                            /\ raced # {} => ~Busy("skins")
    /\ part = "store" => Cardinality({a \in Accounts : doubt[a] # {}}) <= 1
    /\ part = "settings" => E!EditorClaimed
    /\ part = "skins" => K!SkinsClaimed

\* TokenStore's TokensFollow and SignIn's SignInIsSound: a token that was stored is found
\* again, an account that was given is taken, and no other.
SignInsAreKept == /\ part = "store" => T!TokensFollow
                  /\ part = "sign-in" => S!SignInIsSound

\* GameSettingsEditor's EditsAreKept and OptionTable's TranslationSettles and
\* RowsShowEverything: a setting is what the user, the game or a pass gave it last, a pass
\* says it in the words of each version, and the editor shows it; and what an instance's own
\* settings say is what was chosen; and the skins screen shows and sends what is its account's
\* and was selected.
SettingsAreKept ==
    CASE part = "skins" -> K!SkinsAreRight
      [] part = "form" -> I!SettingsAreChosen
      [] part = "settings" -> E!EditsAreKept
      [] part = "translation" -> TranslationSettles /\ RowsShowEverything
      [] OTHER -> TRUE
=============================================================================
