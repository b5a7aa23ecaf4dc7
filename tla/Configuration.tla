--------------------------- MODULE Configuration ---------------------------
(***************************************************************************)
(* How `cortex api-server` comes by its configuration: flags, environment  *)
(* and file as viper merges them (cmd/cortex/main.go), what is decoded of  *)
(* them, and what is looked at before the server is made                   *)
(* (internal/cortex/config.go, NewServer).                                 *)
(*                                                                         *)
(* A volume is the set of its settings that have a value.  The addresses   *)
(* to listen on are not looked at before they are used; variables of the   *)
(* environment for parts of a volume, whose names have dots, are left out. *)
(***************************************************************************)
CONSTANTS
  Volumes,    \* the names a file may give to volumes
  Sources     \* flag, environment and file of the starts that are considered

-----------------------------------------------------------------------------
\* "" is the default of the flag; pgxpool.New refuses "malformed".
DatabaseUrls == {"", "malformed", "url"}

Unset == "unset"

\* The fields of VolumeConfig, by their mapstructure tags.
VolumeConfig == {"endpoint", "region", "bucket", "access-key", "secret-key"}

\* What a file may spell: config.yaml has the last two.
Spellings == VolumeConfig \cup {"accessKey", "secretKey"}

\* volumesAreText: where the volumes should stand, something else does.
Files ==
  [databaseUrl : DatabaseUrls \cup {Unset}, volumesAreText : BOOLEAN,
   volumes : UNION {[names -> SUBSET Spellings] : names \in SUBSET Volumes}]

\* Or one that is no YAML: the error of ReadInConfig is dropped.
NoFile == [databaseUrl |-> Unset, volumesAreText |-> FALSE, volumes |-> << >>]

Source ==
  [flag : DatabaseUrls \cup {Unset}, env : DatabaseUrls \cup {Unset}, file : Files]

ASSUME SourcesAssumption == Sources \subseteq Source

-----------------------------------------------------------------------------
\* A flag that is given, a variable that is not empty, the file, the default.
databaseUrl(source) ==
  CASE source.flag # Unset -> source.flag
    [] source.flag = Unset /\ source.env \notin {Unset, ""} -> source.env
    [] source.flag = Unset /\ source.env \in {Unset, ""} ->
         IF source.file.databaseUrl = Unset THEN "" ELSE source.file.databaseUrl

\* viper knows a volume by the settings the file gives it, and those that are no
\* field are dropped.
decodedVolumes(volumes) ==
  [name \in {n \in DOMAIN volumes : volumes[n] # {}} |-> volumes[name] \cap VolumeConfig]

\* Unmarshal.
Decodes(source) == ~ source.file.volumesAreText

Load(source) ==
  [databaseUrl |-> databaseUrl(source), volumes |-> decodedVolumes(source.file.volumes)]

Config ==
  [databaseUrl : DatabaseUrls,
   volumes : UNION {[names -> SUBSET VolumeConfig] : names \in SUBSET Volumes}]

\* The zero value.
NoConfig == [databaseUrl |-> "", volumes |-> << >>]

\* The tags of Config; the validator does not look into a map without "dive".
\* A map without volumes is nil.
Validate(config) == config.databaseUrl # "" /\ DOMAIN config.volumes # {}

GetDatabasePool(config) == config.databaseUrl # "malformed"

GetVolumeManager(config) == DOMAIN config.volumes # {}

\* NewServer is reached and does not exit.
Accepted(source) ==
  /\ Decodes(source)
  /\ Validate(Load(source))
  /\ GetDatabasePool(Load(source))
  /\ GetVolumeManager(Load(source))

=============================================================================
