SPECIFICATION FairSpec
CONSTANTS
  Containers <- MCContainers
  FilesOf <- MCFilesOf
  Archives <- MCArchives
  Key <- MCKey
  Pool = {p1}
  AtFirst <- MCAtFirst
  Seconds <- MCSeconds
  Locked = {"plain"}
  Untimed = {}
  Refused = {"c"}
  MaxVersion <- MCMaxVersion
INVARIANT TypeOK
INVARIANT EachFileOnce
INVARIANT PlainFilesCurrent
INVARIANT GroupsAreTitles
PROPERTY ScansAndQuitsEnd
