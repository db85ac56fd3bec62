SPECIFICATION Spec
CONSTANTS
    Groups = 2
INVARIANTS TypeOK DoneMeansDomain DomainKept
PROPERTIES ConfigKept
