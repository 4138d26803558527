\* Two people, in every order of their names, ids and mentions.
SPECIFICATION ReferencesSpec
CONSTANTS
  Persons = {"p", "q"}
  Nobody = Nobody
INVARIANTS
  StoredForItsPerson
CHECK_DEADLOCK FALSE
