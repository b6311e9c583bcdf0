----------------------------- MODULE OptionTable -----------------------------
(***************************************************************************)
(* The table of Minecraft's options (mc_options schema.rs) and their       *)
(* translation between two versions of the game (translate.rs).            *)
(*                                                                         *)
(* A version a.b.c is the number a*10000 + b*100 + c.  A value is a        *)
(* number: a truth value is 0 or 1, a value with decimals is a hundred     *)
(* times itself, one of a list of choices is its place in the list, a text *)
(* is a token, and a key bind is the numeric code of the old games, a key  *)
(* those games do not have being Unnamed.  Quotes and the spelling of the  *)
(* language, which follow the version, are left out.                       *)
(***************************************************************************)
EXTENDS Integers, FiniteSets, TLC

CONSTANT Versions

VARIABLE crossing   \* the two versions, their files, and what a pass writes

Now == 999999
Unnamed == 900

Def(keys, kind, low, high, since, until, group) ==
    {[key |-> k, kind |-> kind, low |-> low, high |-> high, since |-> since, until |-> until,
      group |-> group, machine |-> FALSE] : k \in keys}

Bool(since, until, group, keys) == Def(keys, "bool", 0, 1, since, until, group)
Num(low, high, since, until, group, keys) == Def(keys, "number", low, high, since, until, group)
OneOf(n, since, until, group, keys) == Def(keys, "choice", 0, n - 1, since, until, group)
Text(since, until, group, keys) == Def(keys, "text", 0, 1, since, until, group)
Bind(since, until, group, keys) == Def(keys, "bind", 0, Unnamed, since, until, group)
Machine(defs) == {[d EXCEPT !.machine = TRUE] : d \in defs}

VideoOptions == UNION {
    OneOf(3, 0, 11400, "Video", {"ao"}),
    Bool(11400, Now, "Video", {"ao"}),
    Num(0, 7, 11500, Now, "Video", {"biomeBlendRadius"}),
    Num(0, 200, 12111, Now, "Video", {"chunkSectionFadeInTime"}),
    Bool(12111, Now, "Video", {"cutoutLeaves"}),
    Bool(10301, Now, "Video", {"enableVsync"}),
    Num(50, 500, 11600, Now, "Video", {"entityDistanceScaling"}),
    Bool(10801, Now, "Video", {"entityShadows"}),
    Num(-100, 100, 0, Now, "Video", {"fov"}),
    Num(0, 100, 11904, Now, "Video", {"glintSpeed", "glintStrength"}),
    Bool(0, 11600, "Video", {"fancyGraphics"}),
    OneOf(3, 11600, 12111, "Video", {"graphicsMode"}),
    OneOf(4, 12111, Now, "Video", {"graphicsPreset"}),
    OneOf(3, 11800, Now, "Video", {"prioritizeChunkUpdates"}),
    Num(0, 100, 0, Now, "Video", {"gamma"}),
    Num(0, 10, 0, Now, "Video", {"guiScale"}),
    Num(-1, 10, 260300, Now, "Video", {"debugGuiScale"}),
    Num(1, 3, 12111, Now, "Video", {"maxAnisotropyBit"}),
    Num(0, 100, 11602, Now, "Accessibility", {"fovEffectScale", "screenEffectScale"}),
    Num(0, 100, 11900, Now, "Accessibility", {"darknessEffectScale"}),
    Machine(OneOf(3, 260100, Now, "Video", {"preferredGraphicsBackend"})),
    Machine(Bool(10301, Now, "Video", {"fullscreen"})),
    Machine(Bool(260100, Now, "Video", {"exclusiveFullscreen"})),
    Machine(Bool(260300, Now, "Video", {"macFullscreenMenuVisibility"}))}

DisplayOptions == UNION {
    Num(0, 2, 12111, Now, "Video", {"textureFiltering"}),
    Num(10, 260, 10702, Now, "Video", {"maxFps"}),
    OneOf(3, 0, 10702, "Video", {"fpsLimit"}),
    Bool(12111, Now, "Video", {"improvedTransparency", "vignette"}),
    OneOf(2, 12102, Now, "Video", {"inactivityFpsLimit"}),
    Num(0, 4, 10702, Now, "Video", {"mipmapLevels"}),
    Bool(0, 10800, "Video", {"clouds"}),
    OneOf(3, 10800, Now, "Video", {"renderClouds"}),
    Num(2, 128, 12106, Now, "Video", {"cloudRange"}),
    OneOf(4, 0, 10702, "Video", {"viewDistance"}),
    Num(2, 32, 10702, Now, "Video", {"renderDistance"}),
    Num(5, 32, 11800, Now, "Video", {"simulationDistance"}),
    Num(3, 10, 12111, Now, "Video", {"weatherRadius"}),
    Bool(0, Now, "Video", {"bobView"}),
    OneOf(3, 0, Now, "Video", {"particles"}),
    Bool(10800, Now, "Video", {"reducedDebugInfo"}),
    OneOf(3, 10900, Now, "Video", {"attackIndicator"}),
    Bool(0, 11300, "Video", {"anaglyph3d"}),
    Bool(0, 11400, "Video", {"advancedOpengl"}),
    Bool(10100, 11400, "Video", {"useVbo", "fboEnable"}),
    Machine(Num(0, 16384, 10406, Now, "Video", {"overrideWidth", "overrideHeight"})),
    Machine(Text(11300, Now, "Video", {"fullscreenResolution"}))}

AudioOptions == UNION {
    Num(0, 100, 0, 10702, "Audio", {"music", "sound"}),
    Num(0, 100, 10702, Now, "Audio", {"soundCategory_master", "soundCategory_music",
        "soundCategory_record", "soundCategory_weather", "soundCategory_block",
        "soundCategory_hostile", "soundCategory_neutral", "soundCategory_player",
        "soundCategory_ambient"}),
    Num(0, 100, 10900, Now, "Audio", {"soundCategory_voice"}),
    Num(0, 100, 12106, Now, "Audio", {"soundCategory_ui"}),
    Bool(10900, Now, "Audio", {"showSubtitles"}),
    Bool(11900, Now, "Audio", {"directionalAudio"}),
    Bool(12105, 12111, "Audio", {"showNowPlayingToast"}),
    OneOf(3, 12111, Now, "Audio", {"musicToast"}),
    OneOf(3, 12106, Now, "Audio", {"musicFrequency"}),
    OneOf(4, 11200, Now, "Audio", {"narrator"}),
    Machine(Text(11800, Now, "Audio", {"soundDevice"}))}

ControlOptions == UNION {
    Num(0, 100, 0, Now, "Controls", {"mouseSensitivity"}),
    Bool(0, Now, "Controls", {"invertYMouse"}),
    Bool(12109, Now, "Controls", {"invertXMouse", "toggleAttack", "toggleUse",
        "allowCursorChanges"}),
    Num(100, 1000, 11300, Now, "Controls", {"mouseWheelSensitivity"}),
    Bool(11400, Now, "Controls", {"discrete_mouse_scroll"}),
    Bool(11400, 12111, "Controls", {"touchscreen"}),
    Bool(11500, 12111, "Controls", {"rawMouseInput"}),
    Bool(11000, Now, "Controls", {"autoJump"}),
    Bool(11500, Now, "Controls", {"toggleCrouch", "toggleSprint"}),
    Num(0, 10, 12109, Now, "Controls", {"sprintWindow"}),
    Bool(12102, Now, "Controls", {"rotateWithMinecart"}),
    Bool(260300, Now, "Controls", {"quitShortcuts", "ctrlClickEmulatesRightClick"}),
    Bool(11903, Now, "Controls", {"operatorItemsTab"})}

ChatOptions == UNION {
    OneOf(3, 10301, Now, "Chat", {"chatVisibility"}),
    Bool(10301, Now, "Chat", {"chatColors", "chatLinks", "chatLinksPrompt"}),
    Num(0, 100, 10301, Now, "Chat", {"chatOpacity"}),
    Num(0, 100, 11600, Now, "Chat", {"chatLineSpacing"}),
    Num(0, 100, 11400, Now, "Chat", {"textBackgroundOpacity"}),
    Bool(11400, Now, "Chat", {"backgroundForChatOnly"}),
    Num(0, 100, 10501, Now, "Chat", {"chatHeightFocused", "chatHeightUnfocused",
        "chatScale", "chatWidth"}),
    Num(0, 600, 11600, Now, "Chat", {"chatDelay"}),
    Num(0, 1000, 11904, Now, "Chat", {"notificationDisplayTime"}),
    Bool(11300, Now, "Chat", {"autoSuggestions"}),
    Bool(11604, Now, "Chat", {"hideMatchedNames"}),
    Bool(11900, Now, "Chat", {"onlyShowSecureChat"}),
    Bool(12109, Now, "Chat", {"saveChatDrafts"}),
    Bool(10302, Now, "Chat", {"hideServerAddress"}),
    Bool(10402, Now, "Chat", {"advancedItemTooltips"})}

AccessibilityOptions == UNION {
    Bool(11904, Now, "Accessibility", {"highContrast"}),
    Bool(12102, Now, "Accessibility", {"highContrastBlockOutline"}),
    Bool(12002, Now, "Accessibility", {"narratorHotkey"}),
    Bool(11700, Now, "Accessibility", {"darkMojangStudiosBackground"}),
    Bool(11800, Now, "Accessibility", {"hideLightningFlashes", "showAutosaveIndicator"}),
    Bool(12003, Now, "Accessibility", {"hideSplashTexts"}),
    Num(0, 100, 11904, Now, "Accessibility", {"damageTiltStrength"}),
    Num(0, 100, 11903, Now, "Accessibility", {"panoramaScrollSpeed"}),
    Num(0, 10, 12005, Now, "Accessibility", {"menuBackgroundBlurriness"}),
    Bool(11904, Now, "Internal", {"onboardAccessibility"})}

SkinOptions == UNION {
    Bool(10800, Now, "Skin", {"modelPart_cape", "modelPart_jacket", "modelPart_left_sleeve",
        "modelPart_right_sleeve", "modelPart_left_pants_leg", "modelPart_right_pants_leg",
        "modelPart_hat"}),
    OneOf(2, 10900, Now, "Skin", {"mainHand"})}

LanguageOptions == UNION {
    Text(10100, Now, "Language", {"lang"}),
    Bool(10702, Now, "Language", {"forceUnicodeFont"}),
    Bool(12005, Now, "Language", {"japaneseGlyphVariants"})}

OnlineOptions == UNION {
    Machine(Text(0, Now, "Online", {"lastServer"})),
    Text(10702, Now, "Online", {"resourcePacks"}),
    Text(10808, Now, "Online", {"incompatibleResourcePacks"}),
    OneOf(4, 0, 11400, "Online", {"difficulty"}),
    Bool(10402, Now, "Online", {"pauseOnLostFocus"}),
    Bool(10809, Now, "Online", {"realmsNotifications"}),
    Bool(11502, Now, "Online", {"skipMultiplayerWarning"}),
    Bool(11800, Now, "Online", {"allowServerListing"}),
    Bool(10801, Now, "Online", {"useNativeTransport"}),
    Bool(11903, Now, "Online", {"telemetryOptInExtra"}),
    OneOf(3, 260200, Now, "Online", {"sharePresence"}),
    Bool(260200, Now, "Online", {"inGameNotification"})}

InternalOptions == UNION {
    Machine(Num(0, 1000000, 11000, Now, "Internal", {"version"})),
    Machine(OneOf(6, 11200, Now, "Internal", {"tutorialStep"})),
    Machine(Bool(11604, Now, "Internal", {"joinedFirstServer"})),
    Machine(Bool(11600, Now, "Internal", {"syncChunkWrites"})),
    Machine(Bool(12105, Now, "Internal", {"startedCleanly"})),
    Machine(Num(0, 4, 11300, Now, "Internal", {"glDebugVerbosity"}))}

KeyBinds == UNION {
    Bind(0, Now, "Keybinds", {"key_key.attack", "key_key.use", "key_key.forward",
        "key_key.left", "key_key.back", "key_key.right", "key_key.jump", "key_key.sneak",
        "key_key.drop", "key_key.inventory", "key_key.chat", "key_key.playerlist",
        "key_key.pickItem"}),
    Bind(10301, Now, "Keybinds", {"key_key.sprint", "key_key.command"}),
    Bind(260200, Now, "Keybinds", {"key_key.friends"}),
    Bind(11604, Now, "Keybinds", {"key_key.socialInteractions"}),
    Bind(12111, Now, "Keybinds", {"key_key.toggleGui",
        "key_key.toggleSpectatorShaderEffects", "key_key.debug.overlay",
        "key_key.debug.modifier", "key_key.debug.reloadChunk", "key_key.debug.showHitboxes",
        "key_key.debug.clearChat"}),
    Bind(10702, Now, "Keybinds", {"key_key.screenshot", "key_key.togglePerspective",
        "key_key.smoothCamera"}),
    Bind(10704, Now, "Keybinds", {"key_key.fullscreen"}),
    Bind(10800, Now, "Keybinds", {"key_key.spectatorOutlines"}),
    Bind(12109, Now, "Keybinds", {"key_key.spectatorHotbar"}),
    Bind(10900, 11600, "Keybinds", {"key_key.swapHands"}),
    Bind(11600, Now, "Keybinds", {"key_key.swapOffhand"}),
    Bind(11200, Now, "Keybinds", {"key_key.saveToolbarActivator",
        "key_key.loadToolbarActivator", "key_key.advancements"}),
    Bind(12106, Now, "Keybinds", {"key_key.quickActions"})}

DebugKeyBinds == UNION {
    Bind(12111, Now, "Keybinds", {"key_key.debug.crash", "key_key.debug.showChunkBorders",
        "key_key.debug.showAdvancedTooltips", "key_key.debug.copyRecreateCommand",
        "key_key.debug.spectate", "key_key.debug.switchGameMode",
        "key_key.debug.debugOptions", "key_key.debug.focusPause",
        "key_key.debug.dumpDynamicTextures", "key_key.debug.reloadResourcePacks",
        "key_key.debug.profiling", "key_key.debug.copyLocation",
        "key_key.debug.dumpVersion", "key_key.debug.profilingChart",
        "key_key.debug.fpsCharts", "key_key.debug.networkCharts"}),
    Bind(260100, Now, "Keybinds", {"key_key.debug.lightmapTexture"}),
    Bind(260300, Now, "Keybinds", {"key_key.debug.improvedTransparency"}),
    Bind(0, Now, "Keybinds", {"key_key.hotbar.1", "key_key.hotbar.2", "key_key.hotbar.3",
        "key_key.hotbar.4", "key_key.hotbar.5", "key_key.hotbar.6", "key_key.hotbar.7",
        "key_key.hotbar.8", "key_key.hotbar.9"})}

OPTIONS == VideoOptions \cup DisplayOptions \cup AudioOptions \cup ControlOptions \cup ChatOptions
           \cup AccessibilityOptions \cup SkinOptions \cup LanguageOptions \cup OnlineOptions
           \cup InternalOptions \cup KeyBinds \cup DebugKeyBinds

BindKeys == {d.key : d \in {d \in OPTIONS : d.kind = "bind"}}

SoundCategories == {d.key : d \in {d \in AudioOptions : d.kind = "number" /\ d.since >= 10702}}

\* The tables are functions of the versions, so that they are worked out once.
AppliesTo(d, version) == d.since <= version /\ version < d.until

\* find_def, as a table: the one definition of each key a version has.
DefsFor == [v \in Versions |->
               LET defs == {d \in OPTIONS : AppliesTo(d, v)}
               IN  [k \in {d.key : d \in defs} |-> CHOOSE d \in defs : d.key = k]]
FindDef(key, version) == IF key \in DOMAIN DefsFor[version] THEN {DefsFor[version][key]} ELSE {}

\* find_def_any: the last definition of each key, whatever the version.
AnyDef == [k \in {d.key : d \in OPTIONS} |->
              CHOOSE d \in OPTIONS : d.key = k /\ \A e \in OPTIONS : e.key = k => e.since <= d.since]

Legacy(version) == version < 11300

-------------------------------------------------------------------------------
(* Into the common form.                                                   *)

Renamed == [fancyGraphics |-> "graphics", graphicsMode |-> "graphics", graphicsPreset |-> "graphics",
            viewDistance |-> "renderDistance", fpsLimit |-> "maxFps", clouds |-> "renderClouds",
            music |-> "soundCategory_music"] @@ ("key_key.swapHands" :> "key_key.swapOffhand")

CanonKey(key) == IF key \in DOMAIN Renamed THEN Renamed[key] ELSE key

LegacyViewChunks == <<16, 8, 4, 2>>
LegacyFps == <<260, 120, 40>>

CanonValue(key, x) ==
    CASE key = "ao" -> IF x # 0 THEN 1 ELSE 0
      [] key = "viewDistance" -> LegacyViewChunks[x + 1]
      [] key = "fpsLimit" -> LegacyFps[x + 1]
      [] key = "clouds" -> IF x = 1 THEN 2 ELSE 0
      [] OTHER -> x

\* What says nothing about the look, or stands for several newer volumes, is not translated.
Speaks(file, key) == key # "sound" /\ ~(key = "graphicsPreset" /\ file[key] = 3)

ToCanon(file) ==
    LET spoken == {k \in DOMAIN file : Speaks(file, k)}
    IN  [c \in {CanonKey(k) : k \in spoken} |->
            LET k == CHOOSE k \in spoken : CanonKey(k) = c IN CanonValue(k, file[k])]

-------------------------------------------------------------------------------
(* And back, in the format of the target.                                  *)

Fits(d, x) == d.kind = "number" \/ d.kind = "bind" \/ (d.low <= x /\ x <= d.high)
Clamped(d, x) == IF d.kind # "number" THEN x
                 ELSE IF x < d.low THEN d.low ELSE IF x > d.high THEN d.high ELSE x

WithDef(key, x, version) ==
    {<<key, Clamped(d, x)>> : d \in {d \in FindDef(key, version) : Fits(d, x)}}

Distance(a, b) == IF a > b THEN a - b ELSE b - a
NearestIndex(values, target) ==
    (CHOOSE i \in DOMAIN values : \A j \in DOMAIN values \ {i} :
        \/ Distance(values[i], target) < Distance(values[j], target)
        \/ /\ Distance(values[i], target) = Distance(values[j], target)
           /\ values[i] < values[j]) - 1

\* A target that has only "on" and "off" levels keeps the level it is on at.
AoWrite(x, target, version) ==
    IF \E d \in FindDef("ao", version) : d.kind = "choice"
    THEN LET existing == IF "ao" \in DOMAIN target THEN target["ao"] ELSE 0
         IN  {<<"ao", IF x = 0 THEN 0 ELSE IF existing = 0 THEN 2 ELSE existing>>}
    ELSE WithDef("ao", x, version)

GraphicsWrite(x, version) ==
    CASE FindDef("graphicsPreset", version) # {} -> WithDef("graphicsPreset", x, version)
      [] FindDef("graphicsMode", version) # {} -> {<<"graphicsMode", x>>}
      [] FindDef("fancyGraphics", version) # {} -> {<<"fancyGraphics", IF x >= 1 THEN 1 ELSE 0>>}

\* Mutant: the old name of a bind is forgotten on the way back.
NewNames(key, x, target, version) ==
    IF FindDef(key, version) = {} \/ (Legacy(version) /\ x = Unnamed) THEN {} ELSE {<<key, x>>}

BindWrite(key, x, target, version) ==
    LET name == IF key = "key_key.swapOffhand" /\ version < 11600 THEN "key_key.swapHands" ELSE key
    IN  IF (FindDef(name, version) = {} /\ name \notin DOMAIN target) \/ (Legacy(version) /\ x = Unnamed)
        THEN {} ELSE {<<name, x>>}

FromCanonKey(key, x, target, version) ==
    CASE key = "ao" -> AoWrite(x, target, version)
      [] key = "graphics" -> GraphicsWrite(x, version)
      [] key = "renderDistance" /\ version < 10702 -> {<<"viewDistance", NearestIndex(LegacyViewChunks, x)>>}
      [] key = "maxFps" /\ version < 10702 -> {<<"fpsLimit", NearestIndex(LegacyFps, x)>>}
      [] key = "renderClouds" /\ FindDef("clouds", version) # {} -> {<<"clouds", IF x # 0 THEN 1 ELSE 0>>}
      [] key = "soundCategory_music" /\ version < 10702 -> WithDef("music", x, version)
      [] key = "difficulty" /\ version >= 11400 -> {}
      [] key \in BindKeys -> BindWrite(key, x, target, version)
      [] OTHER -> IF FindDef(key, version) # {} THEN WithDef(key, x, version)
                  ELSE IF key \in DOMAIN target THEN {<<key, x>>} ELSE {}

\* Mutant: the machine's own settings travel.
AnyInGroup(key, allowed) == key \in DOMAIN AnyDef /\ AnyDef[key].group \in allowed

KeyIsSyncable(key, allowed) ==
    CASE key \in BindKeys -> "Keybinds" \in allowed
      [] key = "graphics" -> "Video" \in allowed
      [] OTHER -> /\ key \in DOMAIN AnyDef
                  /\ ~AnyDef[key].machine /\ AnyDef[key].group # "Internal" /\ AnyDef[key].group \in allowed

\* A "custom" preset is the user's own mix and is not flattened.
OwnMix(key, target) == key = "graphics" /\ "graphicsPreset" \in DOMAIN target /\ target["graphicsPreset"] = 3

PlanSync(source, target, version, allowed) ==
    LET wanted == ToCanon(source)
        current == ToCanon(target)
        differs == {k \in DOMAIN wanted : /\ KeyIsSyncable(k, allowed) /\ ~OwnMix(k, target)
                                          /\ ~(k \in DOMAIN current /\ current[k] = wanted[k])}
        writes == UNION {FromCanonKey(k, wanted[k], target, version) : k \in differs}
    IN  {w \in writes : ~(w[1] \in DOMAIN target /\ target[w[1]] = w[2])}

Apply(target, writes) ==
    [k \in DOMAIN target \cup {w[1] : w \in writes} |->
        IF \E w \in writes : w[1] = k THEN (CHOOSE w \in writes : w[1] = k)[2] ELSE target[k]]

-------------------------------------------------------------------------------
(* The rows the editor draws for a file, tab by tab (Session::group_rows). *)

\* Bookkeeping the game manages, which no tab shows.
Hidden == {"lastServer", "version", "joinedFirstServer", "startedCleanly"}

\* Binds of mods and other versions follow the known ones; keys nobody knows, but for sound
\* categories of other versions, stand raw under Advanced.

OtherBinds(file, version) == {k \in DOMAIN file \cap BindKeys : FindDef(k, version) = {}}
\* Mutant: a key some version defines is not unknown.
NeverDefined(file, version) == {k \in DOMAIN file \ BindKeys : k \notin DOMAIN AnyDef}

OtherKeys(file, version) ==
    {k \in DOMAIN file \ BindKeys : /\ FindDef(k, version) = {}
                                    /\ ~(k \in SoundCategories /\ k \in DOMAIN AnyDef)}

GroupRows(group, file, version) ==
    {k \in DOMAIN DefsFor[version] : DefsFor[version][k].group = group /\ k \notin Hidden}
    \cup CASE group = "Keybinds" -> OtherBinds(file, version)
           [] group = "Internal" -> OtherKeys(file, version)
           [] OTHER -> {}

-------------------------------------------------------------------------------
(* Two files of two versions.                                              *)

AllGroups == {d.group : d \in OPTIONS}
Shared == AllGroups \ {"Online", "Internal"}

\* The lowest, the highest or a middle value of every option the version has; a new instance
\* has no file.
Sample(d, which, version) ==
    CASE which = "low" -> d.low
      [] which = "high" -> IF d.kind = "bind" /\ Legacy(version) THEN 200 ELSE d.high
      [] which = "middle" -> IF d.kind = "bind" THEN 17 ELSE (d.low + d.high) \div 2

File(version, which) ==
    IF which = "none" THEN [k \in {} |-> 0]
    ELSE [k \in DOMAIN DefsFor[version] |-> Sample(DefsFor[version][k], which, version)]

TableInit == \E from, to \in Versions :
    crossing = [from |-> from, to |-> to, source |-> <<>>, target |-> <<>>,
                writes |-> {}, after |-> <<>>, back |-> {}]

\* A pass to the target's file, and what a pass back would then write.
Cross ==
    /\ crossing.source = <<>>
    /\ \E s \in {"low", "high", "middle"}, t \in {"low", "high", "middle", "none"} :
         LET source == File(crossing.from, s)
             target == File(crossing.to, t)
         IN  \E writes \in {PlanSync(source, target, crossing.to, Shared)} :
             \E after \in {Apply(target, writes)} :
                 crossing' = [crossing EXCEPT !.source = source, !.target = target,
                                              !.writes = writes, !.after = after,
                                              !.back = PlanSync(after, source, crossing.from, Shared)]

TableSpec == TableInit /\ [][Cross]_crossing

-------------------------------------------------------------------------------
(* Properties.                                                             *)

\* What one version says in fewer words than another.
Coarse == {"renderDistance", "maxFps", "renderClouds", "graphics"}

\* plan_sync over the whole table: a pass writes only settings the target's version has and
\* values it takes, leaves the machine's and the game's own settings alone, a second pass
\* finds nothing to do, and what both versions can say is then the same in both files; so a
\* pass back changes only what one of the two says in fewer words, or a bind the older game
\* has no code for.
TranslationSettles ==
    crossing.source # <<>> =>
      \A saidBySource \in {ToCanon(crossing.source)}, saidByTarget \in {ToCanon(crossing.after)} :
        /\ \A w \in crossing.writes : \E d \in FindDef(w[1], crossing.to) :
              /\ d.low <= w[2] /\ w[2] <= d.high
              /\ ~d.machine /\ d.group \in Shared
              /\ Legacy(crossing.to) => w[2] # Unnamed
        /\ PlanSync(crossing.source, crossing.after, crossing.to, Shared) = {}
        /\ \A k \in DOMAIN saidBySource \cap DOMAIN saidByTarget :
              \/ saidBySource[k] = saidByTarget[k] \/ k \in Coarse \/ ~KeyIsSyncable(k, Shared)
              \/ (k \in BindKeys /\ Legacy(crossing.to) /\ saidBySource[k] = Unnamed)
        /\ \A k \in {CanonKey(c) : c \in DOMAIN DefsFor[crossing.to]} \cap DOMAIN saidBySource :
              k \in DOMAIN saidByTarget \/ ~KeyIsSyncable(k, Shared) \/ k \in Coarse
              \/ (k \in BindKeys /\ Legacy(crossing.to) /\ saidBySource[k] = Unnamed)
        /\ \A w \in crossing.back : \/ CanonKey(w[1]) \in Coarse
                                    \/ /\ w[1] \in BindKeys /\ Legacy(crossing.to)
                                       /\ crossing.source[w[1]] = Unnamed
                                    \/ w[1] \notin DOMAIN crossing.source

\* group_rows ("shown raw so nothing is hidden"): every setting of a file, whichever version
\* wrote it, has one row in one tab, but for bookkeeping and other versions' volumes.
RowsShowEverything ==
    LET rows == [g \in AllGroups |-> GroupRows(g, crossing.source, crossing.to)]
    IN  crossing.source # <<>> /\ crossing.target = <<>> =>
        \A k \in DOMAIN crossing.source :
            LET tabs == {g \in AllGroups : k \in rows[g]}
            IN  IF k \in Hidden /\ FindDef(k, crossing.to) # {} THEN tabs = {}
                ELSE IF k \in SoundCategories /\ FindDef(k, crossing.to) = {} THEN tabs = {}
                ELSE Cardinality(tabs) = 1
=============================================================================
