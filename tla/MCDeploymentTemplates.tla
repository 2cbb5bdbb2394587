----------------------- MODULE MCDeploymentTemplates -----------------------
EXTENDS DeploymentTemplates
=============================================================================
