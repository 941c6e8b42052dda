\* The account file: every file, and a save interrupted anywhere.
SPECIFICATION SSpec
CONSTANTS
  MAX_ACCOUNTS = 2
  Defaults <- MCDefaults
  EditedFiles <- MCFiles
INVARIANTS TableIsFile PrefixOfDefaults
CHECK_DEADLOCK FALSE
