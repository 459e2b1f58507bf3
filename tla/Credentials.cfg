SPECIFICATION FairSpec
CONSTANTS
  Urls = {"here", "there"}
  Url = "here"
  Keys = {"", "key", "garbled"}
  Usernames = {"", "user"}
  Passwords = {"", "word", "old"}
  Garbled = {"garbled"}
  Secrets <- MCSecrets
  NoSecret = NoSecret
  Slots = 2
  Logins <- MCLogins
  MaxEdits = 2
  MaxFaults = 1
INVARIANTS
  TypeOK
PROPERTIES
  PresentsOneSecret
  Recovers
  CrashesAgain
