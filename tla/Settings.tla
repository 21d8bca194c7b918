------------------------------- MODULE Settings -------------------------------
(***************************************************************************)
(* The settings in force: currentConfig and configure of src/plugin.go     *)
(* with what the requests make of them.  Lifecycle has the cache that      *)
(* belongs to them, and the interleavings.                                 *)
(***************************************************************************)
EXTENDS Configuration

CONSTANTS
    Names,          \* model names, the blank one "" among them
    Given,          \* what the host may configure, laid over defaultPluginConfig;
                    \* a nil list of visual models has no entries
    Calls           \* [limits, protocol] of the bodies that clients send

Models == [name : Names, padded : BOOLEAN]
Candidates == [model : Models, limit : Int, budget : Int, enabled : BOOLEAN]
Raw == [public : Models, primary : Models, context : Int, budget : Int, output : Int,
        threshold : Int, target : Int, fallbacks : Seq(Models), compression : Models,
        listed : BOOLEAN, vision : Seq(Candidates)]

ASSUME DefaultAssumption ==
    /\ Default \in Raw /\ Accepted(Default)
    /\ Default.output > 0 /\ Default.target > 0
ASSUME NumbersAssumption ==
    DefaultLimit \in Int /\ MinLimit \in Nat /\ DefaultBudget \in Int /\ LimitMargin \in Int
ASSUME GivenAssumption ==
    /\ Given \subseteq Raw /\ \A c \in Given : c.listed \/ c.vision = <<>>
    /\ Calls \subseteq [limits : [LimitKeys -> Nat], protocol : STRING]

VARIABLE settings

\* Until the host configures the plugin the defaults are in force; currentConfig
\* does not look whether they were accepted.
SettingsInit == settings = WithDefaults(Default)

\* What is refused leaves the settings in force.
Reconfigure(c) == Accepted(c) /\ settings' = WithDefaults(c)

SettingsNext == \E c \in Given : Reconfigure(c)
SettingsSpec == SettingsInit /\ [][SettingsNext]_settings

-----------------------------------------------------------------------------
Distinct(models) == \A j, k \in DOMAIN models : models[j] = models[k] => j = k

\* The settings in force cannot route a request back into the bridge, ask no
\* model twice in a chain and use none both to read and to see (config.go:151-240,
\* 274-289, bridge.go:81-85, 130-132, plugin.go:221-231).
SoundChains ==
    LET reading == ToSet(TextChain(settings)) \cup ToSet(CompressionChain(settings))
        seeing == ToSet(VisualChain(settings))
    IN  /\ \A m \in reading \cup seeing : ~Routed(settings, m)
        /\ reading \cap seeing = {} /\ VisualChain(settings) # <<>>
        /\ Distinct(TextChain(settings)) /\ Distinct(CompressionChain(settings))
        /\ Distinct(VisualChain(settings))

\* Whatever limit a client sets, the largest body that is sent and the output it
\* may ask for fit the context together, and no other limit is sent; a summary is
\* smaller than what triggers it; every visual candidate has room; and the
\* settings are accepted unchanged when they are read again (config.go:109-150,
\* 242-259, history.go:119-162, 406).
SoundNumbers ==
    /\ \A call \in Calls :
          LET limits == OutputLimit(call.limits, call.protocol, settings.output)
              key == FinalKey(call.protocol)
          IN  /\ limits[key] > 0 /\ settings.budget + limits[key] <= settings.context
              /\ \A other \in LimitKeys \ {key} : limits[other] = 0
    /\ 0 < settings.target /\ settings.target < settings.threshold
    /\ settings.threshold < settings.budget
    /\ \A k \in DOMAIN settings.vision :
          settings.vision[k].budget \in 1..(settings.vision[k].limit - 1)
    /\ Accepted(settings) /\ WithDefaults(settings) = settings

SoundSettings == SoundChains /\ SoundNumbers
=============================================================================
