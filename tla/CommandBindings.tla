-------------------------- MODULE CommandBindings ---------------------------
(***************************************************************************)
(* The functions of libmc that run a command of the game, by header, and   *)
(* for each the handles it needs, in the order it asks for them: Own, one  *)
(* that it makes for a number, a name, an identifier or the whole command  *)
(* and has to release; Kept, the one that a String, a Target, a block or  *)
(* an entity type keeps.                                                   *)
(* Numbers and enumerators that are part of the command itself need none.  *)
(***************************************************************************)
EXTENDS Functions, Sequences

Own == "own"

Kept == "kept"

AdvancementCalls ==
  [advancement_everything |-> <<Kept>>, advancement_only |-> <<Kept, Own>>]

AdvancementCriterionCalls ==
  [advancement_only_criterion |-> <<Kept, Own, Kept>>]

AdvancementFromCalls ==
  [advancement_from |-> <<Kept, Own>>]

AdvancementTreeCalls ==
  [advancement_through |-> <<Kept, Own>>, advancement_until |-> <<Kept, Own>>]

AttributeCalls ==
  [attribute_get |-> <<Kept, Own>>,
   attribute_get_scaled |-> <<Kept, Own, Own>>]

AttributeBaseCalls ==
  [attribute_base_get |-> <<Kept, Own>>,
   attribute_base_set |-> <<Kept, Own, Own>>]

AttributeModifierCalls ==
  [attribute_modifier_add |-> <<Kept, Own, Own, Own>>,
   attribute_modifier_remove |-> <<Kept, Own, Own>>]

AttributeModifierValueCalls ==
  [attribute_modifier_value_get |-> <<Kept, Own, Own>>]

BossbarCalls ==
  [bossbar_add |-> <<Own, Own>>, bossbar_get |-> <<Own>>,
   bossbar_list |-> <<>>, bossbar_remove |-> <<Own>>]

BossbarColorCalls ==
  [bossbar_set_color |-> <<Own>>]

BossbarStyleCalls ==
  [bossbar_set_style |-> <<Own>>]

BossbarValueCalls ==
  [bossbar_set_max |-> <<Own>>, bossbar_set_value |-> <<Own>>,
   bossbar_set_visible |-> <<Own>>]

BossbarPlayersCalls ==
  [bossbar_set_name |-> <<Own, Own>>, bossbar_set_players_all |-> <<Own>>,
   bossbar_set_players |-> <<Own, Kept>>]

ClearCalls ==
  [clear |-> <<Kept>>]

CloneCalls ==
  [clone |-> <<>>, clone_mode |-> <<>>, clone_filtered |-> <<Kept>>]

DamageCalls ==
  [damage |-> <<Kept, Own>>, damage_type |-> <<Kept, Own, Own>>]

DamageAtCalls ==
  [damage_at |-> <<Kept, Own, Own, Own, Own, Own>>]

DamageByCalls ==
  [damage_by |-> <<Kept, Own, Own, Kept>>,
   damage_by_from |-> <<Kept, Own, Own, Kept, Kept>>]

DataGetCalls ==
  [data_get |-> <<Own>>, data_get_path |-> <<Own>>,
   data_get_scaled |-> <<Own>>]

DataChangeCalls ==
  [data_remove |-> <<Own>>, data_modify |-> <<Own>>, data_merge |-> <<Own>>]

DatapackCalls ==
  [datapack_enable |-> <<Kept>>, datapack_disable |-> <<Kept>>,
   datapack_list |-> <<>>]

DefaultgamemodeCalls ==
  [defaultgamemode |-> <<>>]

DifficultyCalls ==
  [difficulty |-> <<>>]

EffectGiveCalls ==
  [effect_give |-> <<Kept, Own>>, effect_give_seconds |-> <<Kept, Own>>]

EffectGiveStrengthCalls ==
  [effect_give_amplified |-> <<Kept, Own>>,
   effect_give_hidden |-> <<Kept, Own>>]

EffectClearCalls ==
  [effect_clear_all |-> <<Kept>>, effect_clear |-> <<Kept, Own>>]

EnchantCalls ==
  [enchant |-> <<Kept, Own>>, enchant_level |-> <<Kept, Own>>]

ExperienceChangeCalls ==
  [experience_add_points |-> <<Kept>>, experience_add_levels |-> <<Kept>>,
   experience_set_points |-> <<Kept>>, experience_set_levels |-> <<Kept>>]

ExperienceQueryCalls ==
  [experience_query_points |-> <<Kept>>, experience_query_levels |-> <<Kept>>]

FillCalls ==
  [fill |-> <<Kept>>]

FillbiomeCalls ==
  [fillbiome |-> <<Own>>, fillbiome_replace |-> <<Own, Own>>]

ForceloadCalls ==
  [forceload_add |-> <<>>, forceload_remove |-> <<>>,
   forceload_remove_all |-> <<>>]

FunctionCalls ==
  [function_call |-> <<Own>>]

GamemodeCalls ==
  [gamemode |-> <<>>, gamemode_target |-> <<Kept>>]

GameruleCalls ==
  [gamerule_query |-> <<Kept>>, gamerule_set_bool |-> <<Kept>>,
   gamerule_set_int |-> <<Kept>>]

GiveCalls ==
  [give |-> <<Kept, Own>>, give_count |-> <<Kept, Own>>]

HelpCalls ==
  [help |-> <<>>, help_command |-> <<Kept>>]

ItemCalls ==
  [item_modify |-> <<Own>>, item_replace_with |-> <<Own>>,
   item_replace_with_count |-> <<Own>>, item_replace_from |-> <<Own>>,
   item_replace_from_modified |-> <<Own>>]

KillCalls ==
  [kill |-> <<Kept>>]

ListCalls ==
  [list |-> <<>>, list_uuids |-> <<>>]

LocateCalls ==
  [locate_structure |-> <<Own>>, locate_biome |-> <<Own>>,
   locate_poi |-> <<Own>>]

LootCalls ==
  [loot |-> <<Own>>]

MeCalls ==
  [me |-> <<Kept>>]

MsgCalls ==
  [msg |-> <<Kept, Kept>>]

ParticleCalls ==
  [particle |-> <<Own>>, particle_at |-> <<Own, Own, Own, Own>>]

PlaceCalls ==
  [place_feature |-> <<Own>>, place_feature_at |-> <<Own>>,
   place_structure |-> <<Own>>, place_structure_at |-> <<Own>>]

PlaceJigsawCalls ==
  [place_jigsaw |-> <<Own, Own>>, place_jigsaw_at |-> <<Own, Own>>]

PlaceTemplateCalls ==
  [place_template |-> <<Own>>, place_template_at |-> <<Own>>]

PlaysoundCalls ==
  [playsound |-> <<Own, Kept>>]

PlaysoundAtCalls ==
  [playsound_at |-> <<Own, Kept, Own, Own, Own>>]

PlaysoundFullCalls ==
  [playsound_full |-> <<Own, Kept, Own, Own, Own, Own, Own>>]

RandomCalls ==
  [random_value |-> <<Kept>>, random_value_seq |-> <<Kept, Own>>,
   random_roll |-> <<Kept>>, random_roll_seq |-> <<Kept, Own>>]

RecipeCalls ==
  [recipe_give |-> <<Kept, Own>>, recipe_take |-> <<Kept, Own>>]

ReloadCalls ==
  [reload |-> <<>>]

RideCalls ==
  [ride_mount |-> <<Kept, Kept>>, ride_dismount |-> <<Kept>>]

RotateCalls ==
  [rotate |-> <<Kept, Own, Own>>, rotate_facing_entity |-> <<Kept, Kept>>,
   rotate_facing_pos |-> <<Kept, Own, Own, Own>>]

SayCalls ==
  [say |-> <<Kept>>]

ScheduleCalls ==
  [schedule_function |-> <<Own>>, schedule_clear |-> <<Kept>>]

ScoreboardObjectivesCalls ==
  [scoreboard_objectives_list |-> <<>>,
   scoreboard_objectives_add |-> <<Own, Own>>,
   scoreboard_objectives_remove |-> <<Own>>]

ScoreboardDisplayCalls ==
  [scoreboard_objectives_setdisplay |-> <<Own, Own>>,
   scoreboard_objectives_modify_rendertype |-> <<Own>>]

ScoreboardPlayersCalls ==
  [scoreboard_players_get |-> <<Kept, Own>>,
   scoreboard_players_set |-> <<Kept, Own>>]

ScoreboardPlayersChangeCalls ==
  [scoreboard_players_add |-> <<Kept, Own>>,
   scoreboard_players_remove |-> <<Kept, Own>>]

ScoreboardTriggerCalls ==
  [scoreboard_players_reset |-> <<Kept, Own>>,
   scoreboard_players_enable |-> <<Kept, Own>>]

ScoreboardOperationCalls ==
  [scoreboard_players_operation |-> <<Kept, Own, Kept, Own>>]

SeedCalls ==
  [seed |-> <<>>]

SetblockCalls ==
  [setblock |-> <<Kept>>]

SetworldspawnCalls ==
  [setworldspawn |-> <<>>, setworldspawn_at |-> <<>>]

SpawnpointCalls ==
  [spawnpoint |-> <<>>, spawnpoint_target |-> <<Kept>>,
   spawnpoint_at |-> <<Kept>>]

SpectateCalls ==
  [spectate |-> <<>>, spectate_target |-> <<Kept>>,
   spectate_as |-> <<Kept, Kept>>]

SpreadplayersCalls ==
  [spreadplayers |-> <<Own, Own, Own, Own, Kept>>]

SpreadplayersUnderCalls ==
  [spreadplayers_under |-> <<Own, Own, Own, Own, Kept>>]

StopsoundCalls ==
  [stopsound |-> <<Kept>>, stopsound_source |-> <<Kept>>]

StopsoundSoundCalls ==
  [stopsound_sound |-> <<Kept, Own>>]

SummonCalls ==
  [summon |-> <<Kept, Own, Own, Own>>]

TagCalls ==
  [tag_add |-> <<Kept, Kept>>, tag_remove |-> <<Kept, Kept>>,
   tag_list |-> <<Kept>>]

TeamCalls ==
  [team_list |-> <<Own>>, team_list_of |-> <<Own>>, team_add |-> <<Own>>,
   team_add_named |-> <<Own>>, team_remove |-> <<Own>>,
   team_empty |-> <<Own>>, team_join |-> <<Own>>,
   team_join_members |-> <<Own>>, team_leave |-> <<Own>>,
   team_modify |-> <<Own>>]

TeammsgCalls ==
  [teammsg |-> <<Kept>>]

TellrawCalls ==
  [tellraw |-> <<Kept, Kept>>]

TimeCalls ==
  [time_set |-> <<>>, time_set_preset |-> <<>>, time_add |-> <<>>,
   time_query |-> <<>>]

TitleResetCalls ==
  [title_clear |-> <<Kept>>, title_reset |-> <<Kept>>]

TitleTextCalls ==
  [title_title |-> <<Kept, Kept>>, title_subtitle |-> <<Kept, Kept>>,
   title_actionbar |-> <<Kept, Kept>>, title_times |-> <<Kept>>]

TpCalls ==
  [tp |-> <<Kept, Own, Own, Own>>]

TpRotCalls ==
  [tp_rot |-> <<Kept, Own, Own, Own, Own, Own>>, tp_entity |-> <<Kept, Kept>>]

TriggerCalls ==
  [trigger |-> <<Kept>>, trigger_add |-> <<Kept>>, trigger_set |-> <<Kept>>]

WeatherCalls ==
  [weather |-> <<>>, weather_duration |-> <<>>]

WorldborderCalls ==
  [worldborder_set |-> <<Own>>, worldborder_add |-> <<Own>>]

WorldborderChangeCalls ==
  [worldborder_set_time |-> <<Own>>, worldborder_center |-> <<Own, Own>>]

(* The sequences of handles that some binding asks for.                    *)
Bindings ==
  UNION {Range(AdvancementCalls), Range(AdvancementCriterionCalls),
         Range(AdvancementFromCalls), Range(AdvancementTreeCalls),
         Range(AttributeCalls), Range(AttributeBaseCalls),
         Range(AttributeModifierCalls), Range(AttributeModifierValueCalls),
         Range(BossbarCalls), Range(BossbarColorCalls),
         Range(BossbarStyleCalls), Range(BossbarValueCalls),
         Range(BossbarPlayersCalls), Range(ClearCalls), Range(CloneCalls),
         Range(DamageCalls), Range(DamageAtCalls), Range(DamageByCalls),
         Range(DataGetCalls), Range(DataChangeCalls), Range(DatapackCalls),
         Range(DefaultgamemodeCalls), Range(DifficultyCalls),
         Range(EffectGiveCalls), Range(EffectGiveStrengthCalls),
         Range(EffectClearCalls), Range(EnchantCalls),
         Range(ExperienceChangeCalls), Range(ExperienceQueryCalls),
         Range(FillCalls), Range(FillbiomeCalls), Range(ForceloadCalls),
         Range(FunctionCalls), Range(GamemodeCalls), Range(GameruleCalls),
         Range(GiveCalls), Range(HelpCalls), Range(ItemCalls),
         Range(KillCalls), Range(ListCalls), Range(LocateCalls),
         Range(LootCalls), Range(MeCalls), Range(MsgCalls),
         Range(ParticleCalls), Range(PlaceCalls), Range(PlaceJigsawCalls),
         Range(PlaceTemplateCalls), Range(PlaysoundCalls),
         Range(PlaysoundAtCalls), Range(PlaysoundFullCalls),
         Range(RandomCalls), Range(RecipeCalls), Range(ReloadCalls),
         Range(RideCalls), Range(RotateCalls), Range(SayCalls),
         Range(ScheduleCalls), Range(ScoreboardObjectivesCalls),
         Range(ScoreboardDisplayCalls), Range(ScoreboardPlayersCalls),
         Range(ScoreboardPlayersChangeCalls), Range(ScoreboardTriggerCalls),
         Range(ScoreboardOperationCalls), Range(SeedCalls),
         Range(SetblockCalls), Range(SetworldspawnCalls),
         Range(SpawnpointCalls), Range(SpectateCalls),
         Range(SpreadplayersCalls), Range(SpreadplayersUnderCalls),
         Range(StopsoundCalls), Range(StopsoundSoundCalls),
         Range(SummonCalls), Range(TagCalls), Range(TeamCalls),
         Range(TeammsgCalls), Range(TellrawCalls), Range(TimeCalls),
         Range(TitleResetCalls), Range(TitleTextCalls), Range(TpCalls),
         Range(TpRotCalls), Range(TriggerCalls), Range(WeatherCalls),
         Range(WorldborderCalls), Range(WorldborderChangeCalls)}

ASSUME BindingsAssumption == Bindings \subseteq Seq({Own, Kept})
=============================================================================
